---- MODULE Spec2Model ----
(***************************************************************************)
(* Frame loop of the Dark Souls III practice tool.                         *)
(*                                                                         *)
(* The repository holds two generations of the frame loop:                 *)
(*   build = "lib"  PracticeTool of src/practice-tool/src/lib.rs           *)
(*   build = "pt"   PracticeTool of src/practice-tool/src/practice_tool.rs *)
(* Both are modelled; the build is fixed by Init.  One call of             *)
(* ImguiRenderLoop::render is a chain of steps (pc) in source order:       *)
(*   idle --hotkey handler--> dispatch --render_visible (two halves),      *)
(*        render_closed or render_hidden--> drain --log drain and          *)
(*        eviction--> logs --render_logs--> idle                           *)
(* render_radial of practice_tool.rs, called between the hotkey handler    *)
(* and the dispatch, reads the controller and writes the controller's own  *)
(* state only; the runs below have no controller attached.  The frame      *)
(* counter and the indicator switches of practice_tool.rs, which only the  *)
(* indicator texts read, are not part of the state.                        *)
(* The hook serialises render and the window procedure, so                 *)
(* should_block_messages runs only between frames (pc = "idle").           *)
(***************************************************************************)
EXTENDS Integers, Sequences, FiniteSets, TLC

\* ------------------------------------------------------------------ bounds
\* Latest instant (seconds) the clock of a run reaches.
MaxTime == 6
\* Most messages the widgets record in one run.
MaxMsgs == 5
\* Directions the left thumb stick is pushed in.
PadDirs == 2
\* Longest item name and longest filter text, in characters.
MaxLen == 3
\* Most entries of the commands list of a configuration file.
MaxCmds == 2
\* Most calls of DllMain by the loader.
MaxCalls == 3

\* ------------------------------------------------------- program constants
\* winapi::shared::minwindef::MAX_PATH
MAX_PATH == 260
\* std::time::Duration::from_secs(5): how long a frame log entry lives.
LogTTL == 5
\* render_logs of practice_tool.rs: self.log.iter().rev().take(3).rev()
LogShown == 3

VARIABLES
    build,        \* "lib" | "pt": which PracticeTool is running
    env,          \* what the user and the host do in this run (fixed by Init)
    widgets,      \* kinds of the configured widgets, in config order
    ui_state,     \* PracticeTool.ui_state
    is_hidden,    \* PracticeTool.is_hidden (practice_tool.rs only)
    cursor_show,  \* the game's cursor_show bitflag (pointers.cursor_show)
    popup,        \* modal of the closed bar: "none" | "help" | "indicators"
    ws,           \* private state of each widget, by config position
    game,         \* host memory the widgets read and write
    active_id,    \* imgui's active item: "none" | "text" (a text input)
    log,          \* PracticeTool.log: sequence of [tm, msg]
    now,          \* the monotonic clock (Instant::now), in seconds
    next_id,      \* serial of the next message a widget records
    pc,           \* position inside render
    io,           \* imgui::Io and key state sampled for this frame
    ui_state0,    \* ui_state when this frame began
    branch,       \* which render_* the dispatch of this frame called
    trace,        \* widget calls of this frame, in call order
    fresh,        \* ids moved into the frame log by the last drain
    late,         \* ids of the last finished frame that it did not draw
    overdue,      \* ids that the frame after theirs did not draw either
    arrived,      \* every [tm, msg] a drain ever appended to the frame log
    drawn,        \* entries drawn by render_logs of the last finished frame
    block_ret,    \* what should_block_messages returned since the last frame, if called
    ejected       \* hudhook::eject() was called

\* The controller and the synthetic keys of practice_tool.rs.
VARIABLES
    press_queue,    \* PracticeTool.press_queue: keys to send down next frame
    release_queue,  \* PracticeTool.release_queue: keys to send up next frame
    gamepad_state,  \* PracticeTool.gamepad_state: the last XINPUT_STATE sampled
    gamepad_stick,  \* PracticeTool.gamepad_stick: last deflection (0: none yet)
    BLOCK_XINPUT,   \* the process-wide AtomicBool
    flushed,        \* before_render has run for the frame about to be rendered
    emitted,        \* key events of the latest before_render, in order
    emitted_prev,   \* key events of the before_render before that
    pad0,           \* gamepad_state as the latest render_radial found it
    committed,      \* keys the latest render_radial appended to press_queue
    aimed           \* the stick left its dead zone while the shoulders were held

padvars == << press_queue, release_queue, gamepad_state, gamepad_stick, BLOCK_XINPUT,
              flushed, emitted, emitted_prev, pad0, committed, aimed >>

\* Operations outside the frame loop.
VARIABLES
    call,           \* the latest call of a function outside the frame loop
    inj,            \* the injector's progress through inject()
    boot            \* the DLL's progress from DllMain to the installed hook

offvars == << call, inj, boot >>

framevars == << build, env, widgets, ui_state, is_hidden, cursor_show, popup, ws,
                game, active_id, log, now, next_id, pc, io, ui_state0, branch, trace,
                fresh, late, overdue, arrived, drawn, block_ret, ejected >>

vars == << framevars, padvars, offvars >>

UiStates == {"MenuOpen", "Closed", "Hidden"}

\* Nothing called yet.
NoCall == [fn |-> "none"]

\* inject() about to start: no handle, no remote memory, nothing reported.
\*   failed:   the steps that failed
\*   reported: the failed steps reported with GetLastError()
\*   misused:  the steps run on a null handle or a null remote address
\*   live:     the handles open and the remote memory allocated
\*   done:     the Win32 calls made, in order
NoInj == [pc |-> "FindWindowA", proc_addr |-> "unset", hproc |-> "unset",
          dllp |-> "unset", res |-> "unset", thread |-> "unset", ec |-> "unset",
          failed |-> { }, reported |-> { }, misused |-> { }, live |-> { },
          done |-> << >>]

\* The DLL mapped and DllMain not yet called.
\*   calls:   the reasons DllMain was called with, in order
\*   spawned: workers spawned
\*   worker:  the worker's next step; steps: the steps it has done, in order
\*   result:  what apply() returned; hooked: the graphics hook is installed
\*   errors:  error! lines of the worker; ejects: calls of eject()
\*   frames:  render calls; early: a render call found the tool unconstructed
NoBoot == [calls |-> << >>, spawned |-> 0, worker |-> "none", steps |-> << >>,
           result |-> "unset", hooked |-> FALSE, errors |-> 0, ejects |-> 0,
           frames |-> 0, early |-> FALSE]

\* No frame in progress: nothing sampled.
NoIo == [wck |-> FALSE, keys |-> {}]

\* Keys the tool listens to.  "display" is settings.display (also the close
\* hotkey of every widget modal, config.rs:143,153); "rshift" is VK_RSHIFT held
\* down (lib.rs); "hide" is settings.hide (practice_tool.rs); "open" is the
\* stats editor's hotkey_open, "load" the item spawner's hotkey_load.
BuildKeys(b) == IF b = "lib" THEN {"display", "rshift", "open", "load"}
                ELSE {"display", "hide", "open", "load"}

\* --------------------------------------------------------------- hotkeys
\* Mutation: the chord fires whatever has the focus.
keyup_any_focus(key, keys, active) == key \in keys

\* KeyState::keyup (crate::util): the key went up on this frame.  A chord never
\* fires on a frame where a text input of the UI is focused.
keyup(key, keys, active) == key \in keys /\ active # "text"

\* Key::is_pressed, the same test in practice_tool.rs.
is_pressed(key, keys, active) == key \in keys /\ active # "text"

\* ------------------------------------------------------------ game memory
\* i32::MAX, the upper clamp of level and souls.
I32Max == 2147483647

StatFields == {"level", "vigor", "attunement", "endurance", "vitality", "strength",
               "dexterity", "intelligence", "faith", "luck", "souls"}

\* The CharacterStats struct the host holds when the run begins.
HostStats == [level |-> 10, vigor |-> 12, attunement |-> 10, endurance |-> 11,
              vitality |-> 15, strength |-> 13, dexterity |-> 12, intelligence |-> 9,
              faith |-> 9, luck |-> 11, souls |-> 0]

\* Option<T>: None is the empty sequence, Some(x) the sequence of x alone.
None == << >>
Some(x) == << x >>

\* ------------------------------------------------- CharacterStatsEdit widget
clamp(x, lo, hi) == IF x < lo THEN lo ELSE IF x > hi THEN hi ELSE x

\* Mutation: an edited field is stored as entered.
ClampField_as_entered(f, v) == v

\* The clamp render applies to a field whose input_int reported a change.
ClampField(f, v) ==
    IF f = "level" THEN clamp(v, 1, I32Max)
    ELSE IF f = "souls" THEN clamp(v, 0, I32Max)
    ELSE clamp(v, 1, 99)

CharacterStatsEdit_new == [kind |-> "stats", stats |-> None]

\* The widget calls of one frame work on a record
\*   st = [ws, game, active, next_id, trace]
\* (widget states, host memory, imgui's active item, message serial, calls made).

\* What the user does to one widget's controls during one frame.
\*   click: the control clicked ("none" when none)
\*   edit:  <<field, value>> entered into an input_int, or <<>>
NoInput == [click |-> "none", edit |-> << >>]

\* interact: if self.hotkey_open.keyup(ui) { self.stats = self.ptr.read(); }
CharacterStatsEdit_interact(i, st, keys) ==
    IF keyup("open", keys, st.active)
    THEN [st EXCEPT !.ws[i].stats = Some(st.game.stats)] ELSE st

\* render: the open button, the modal with its clamped fields, Apply and close.
CharacterStatsEdit_render(i, st, keys, inp) ==
    LET s1      == IF inp.click = "open" THEN Some(st.game.stats) ELSE st.ws[i].stats
        shown   == s1 # None
        s2      == IF shown /\ inp.edit # << >>
                   THEN [s1 EXCEPT ![1][inp.edit[1]] = ClampField(inp.edit[1], inp.edit[2])]
                   ELSE s1
        g2      == IF shown /\ inp.click = "apply"
                   THEN [st.game EXCEPT !.stats = s2[1]] ELSE st.game
        act2    == IF ~shown THEN st.active
                   ELSE IF inp.click = "focus" THEN "text"
                   ELSE IF inp.click \in {"blur", "apply", "close", "open"} THEN "none"
                   ELSE st.active
        closing == shown /\ ( inp.click = "close"
                              \/ (keyup("display", keys, act2) /\ act2 = "none") )
    IN  [st EXCEPT !.ws[i].stats = IF closing THEN None ELSE s2,
                   !.game = g2,
                   !.active = IF closing THEN "none" ELSE act2]

\* ---------------------------------------------------------- ItemSpawner widget
\* The selection a new spawner starts with, and returns to on its reset button.
NoSelection == [qty |-> 1, durability |-> 100, item_id |-> 1073744743, upgrade |-> 0,
                infusion_type |-> 0]

ItemSpawner_new == [kind |-> "spawner", log |-> None, popup |-> FALSE, sel |-> NoSelection]

\* write_log: append to the widget's own Option<Vec<String>>.
ItemSpawner_write_log(w, m) ==
    [w EXCEPT !.log = IF w.log = None THEN Some(<< m >>) ELSE Some(Append(w.log[1], m))]

\* Mutation: the game's spawn function is called whatever the sentinel says.
ItemSpawner_spawn_unguarded(i, st) ==
    [st EXCEPT !.ws[i] = ItemSpawner_write_log(@, [id |-> st.next_id, text |-> "spawned"]),
               !.next_id = @ + 1,
               !.game.spawns = @ + 1]

\* spawn: one log line either way; the game's spawn function only in a live game.
ItemSpawner_spawn(i, st) ==
    IF ~st.game.in_game
    THEN [st EXCEPT !.ws[i] = ItemSpawner_write_log(@, [id |-> st.next_id, text |-> "not_in_game"]),
                    !.next_id = @ + 1]
    ELSE [st EXCEPT !.ws[i] = ItemSpawner_write_log(@, [id |-> st.next_id, text |-> "spawned"]),
                    !.next_id = @ + 1,
                    !.game.spawns = @ + 1]

\* interact: nothing while an item is active, else spawn on hotkey_load.
ItemSpawner_interact(i, st, keys) ==
    IF st.active # "none" THEN st
    ELSE IF keyup("load", keys, st.active) THEN ItemSpawner_spawn(i, st) ELSE st

\* render: the open button and the popup with the filter text input, the spawn
\* button and hotkey, and the close button and hotkey.
ItemSpawner_render(i, st, keys, inp) ==
    LET open    == st.ws[i].popup \/ inp.click = "open"
        act2    == IF ~open THEN st.active
                   ELSE IF inp.click = "focus" THEN "text"
                   ELSE IF inp.click \in {"blur", "spawn", "close", "open", "pick", "reset"}
                   THEN "none"
                   ELSE st.active
        st0     == [st EXCEPT !.ws[i].popup = open, !.active = act2]
        st1     == IF open /\ inp.click = "pick"
                   THEN [st0 EXCEPT !.ws[i].sel[inp.edit[1]] = inp.edit[2]] ELSE st0
        st2     == IF open /\ (keyup("load", keys, act2) \/ inp.click = "spawn")
                   THEN ItemSpawner_spawn(i, st1) ELSE st1
        st3     == IF open /\ inp.click = "reset"
                   THEN [st2 EXCEPT !.ws[i].sel = NoSelection] ELSE st2
        closing == open /\ ( inp.click = "close"
                             \/ (keyup("display", keys, act2) /\ act2 = "none") )
    IN  IF closing THEN [st3 EXCEPT !.ws[i].popup = FALSE, !.active = "none"] ELSE st3

\* log(): self.log.take()
ItemSpawner_log(w) == w.log

\* ------------------------------------------------------- the Widget trait
\* A modal of widget w is up: the tool window's other controls get no clicks.
ModalOf(w) == IF w.kind = "stats" THEN w.stats # None ELSE w.popup

ModalUp(wss) == \E i \in 1..Len(wss) : ModalOf(wss[i])

Called(st, op, i) == [st EXCEPT !.trace = Append(@, << op, i >>)]

Widget_interact(i, st, keys) ==
    IF st.ws[i].kind = "stats"
    THEN CharacterStatsEdit_interact(i, Called(st, "interact", i), keys)
    ELSE ItemSpawner_interact(i, Called(st, "interact", i), keys)

Widget_render(i, st, keys, inp) ==
    IF st.ws[i].kind = "stats"
    THEN CharacterStatsEdit_render(i, Called(st, "render", i), keys, inp)
    ELSE ItemSpawner_render(i, Called(st, "render", i), keys, inp)

\* Neither widget overrides render_closed: the call draws nothing.
Widget_render_closed(i, st) == Called(st, "render_closed", i)

\* for w in self.widgets.iter_mut() { w.interact(ui); }
RECURSIVE InteractFrom(_, _, _)
InteractFrom(i, st, keys) ==
    IF i > Len(st.ws) THEN st
    ELSE InteractFrom(i + 1, Widget_interact(i, st, keys), keys)

\* for w in self.widgets.iter_mut() { w.render(ui); }
\* The user works the controls of at most one widget (at) in a frame.
RECURSIVE RenderFrom(_, _, _, _, _)
RenderFrom(i, st, keys, at, inp) ==
    IF i > Len(st.ws) THEN st
    ELSE RenderFrom(i + 1,
                    Widget_render(i, st, keys, IF i = at THEN inp ELSE NoInput),
                    keys, at, inp)

\* for w in self.widgets.iter_mut() { w.render_closed(ui); }
RECURSIVE RenderClosedFrom(_, _)
RenderClosedFrom(i, st) ==
    IF i > Len(st.ws) THEN st
    ELSE RenderClosedFrom(i + 1, Widget_render_closed(i, st))


\* ============================================================ the frame loop
St == [ws |-> ws, game |-> game, active |-> active_id, next_id |-> next_id,
       trace |-> trace]

NumSpawners == Cardinality({i \in 1..Len(widgets) : widgets[i] = "spawner"})

\* Key and capture states imgui can report at the start of a frame.  An active
\* item or an open modal makes imgui claim the keyboard.
\* Keys that before_render sent down for this frame count as pressed in it.
SynthDown == { emitted[j][1] : j \in { i \in 1..Len(emitted) : emitted[i][2] } }

FrameIo ==
    { k \in [wck : BOOLEAN,
              keys : SUBSET ((env.keys \cup SynthDown) \cap BuildKeys(build))] :
        /\ (active_id # "none" \/ popup # "none" \/ ModalUp(ws)) => k.wck
        /\ (SynthDown \cap BuildKeys(build)) \subseteq k.keys }

\* The bound MaxMsgs limits how often the user presses the spawner's hotkey:
\* in mode s a press makes every spawner record at most one message from
\* interact, and in MenuOpen the one with its popup up a second from render.
LoadFits(k, s) ==
    "load" \in k.keys =>
        next_id + NumSpawners + (IF s = "MenuOpen" THEN 1 ELSE 0) <= MaxMsgs

\* ----------------------------------------------------------- lib.rs: hotkey
\* Mutation: the capture test dropped.
lib_hotkey_fires_uncaptured(k, active) == keyup("display", k.keys, active)

\* if !ui.io().want_capture_keyboard && self.config.settings.display.keyup(ui)
lib_hotkey_fires(k, active) == ~k.wck /\ keyup("display", k.keys, active)

\* Mutation: the shift arm tested before the Hidden arm.
lib_next_ui_state_shift_first(s, rshift) ==
    IF rshift THEN "Hidden"
    ELSE IF s = "Hidden" THEN "Closed"
    ELSE IF s = "MenuOpen" THEN "Closed"
    ELSE "MenuOpen"

\* self.ui_state = match (&self.ui_state, rshift) { ... }: first arm that matches.
lib_next_ui_state(s, rshift) ==
    IF s = "Hidden" THEN "Closed"
    ELSE IF rshift THEN "Hidden"
    ELSE IF s = "MenuOpen" THEN "Closed"
    ELSE "MenuOpen"

\* Mutation: the handler never writes the flag.
cursor_after_hotkey_unwritten(s, c) == c

\* match &self.ui_state { MenuOpen => {}, Closed | Hidden => cursor_show.set(false) }
cursor_after_hotkey(s, c) == IF s = "MenuOpen" THEN c ELSE FALSE

BeginFrame(k) ==
    /\ pc = "idle"
    /\ ~ejected
    /\ pc' = "dispatch"
    /\ io' = k
    /\ ui_state0' = ui_state
    /\ block_ret' = None
    /\ UNCHANGED << build, env, widgets, is_hidden, popup, ws, game, active_id, log,
                    now, next_id, branch, trace, fresh, late, overdue, arrived, drawn, ejected >>

lib_render_hotkey ==
    /\ build = "lib"
    /\ \E k \in FrameIo :
         /\ BeginFrame(k)
         /\ IF lib_hotkey_fires(k, active_id)
            THEN LET s == lib_next_ui_state(ui_state, "rshift" \in k.keys)
                 IN  /\ ui_state' = s
                     /\ cursor_show' = cursor_after_hotkey(s, cursor_show)
            ELSE UNCHANGED << ui_state, cursor_show >>
         /\ LoadFits(k, ui_state')
    /\ UNCHANGED << padvars, offvars >>

\* --------------------------------------------------- practice_tool.rs: hotkey
\* if !ui.io().want_capture_keyboard && (display || hide)
pt_hotkey_fires(k, active) ==
    ~k.wck /\ (is_pressed("display", k.keys, active) \/ is_pressed("hide", k.keys, active))

\* Mutation: Hidden leaves for Closed, as the table of lib.rs has it.
pt_next_ui_state_hidden_closed(s, hide, hidden) ==
    IF s = "Hidden" THEN "Closed"
    ELSE IF hide THEN "Hidden"
    ELSE IF s = "MenuOpen" THEN (IF hidden THEN "Hidden" ELSE "Closed")
    ELSE "MenuOpen"

\* Mutation: is_hidden ignored when MenuOpen is left.
pt_next_ui_state_forgets_hidden(s, hide, hidden) ==
    IF s = "Hidden" THEN "MenuOpen"
    ELSE IF hide THEN "Hidden"
    ELSE IF s = "MenuOpen" THEN "Closed"
    ELSE "MenuOpen"

\* self.ui_state = match (&self.ui_state, hide) { ... }: first arm that matches.
pt_next_ui_state(s, hide, hidden) ==
    IF s = "Hidden" THEN "MenuOpen"
    ELSE IF hide THEN "Hidden"
    ELSE IF s = "MenuOpen" THEN (IF hidden THEN "Hidden" ELSE "Closed")
    ELSE "MenuOpen"

\* ------------------------------------------- practice_tool.rs: controller
\* XINPUT_STATE.Gamepad as render_radial reads it: the two shoulder buttons,
\* A, and the left thumb stick (thumb: 0 while its norm is at most 10000,
\* else the direction it is pushed in).  Default::default() is all zero.
NoPad == [lb |-> FALSE, rb |-> FALSE, a |-> FALSE, thumb |-> 0]

\* What XINPUTGETSTATE(0, ..) can put into gamepad_state on a frame.
PadSamples ==
    IF env.pad
    THEN [lb : BOOLEAN, rb : BOOLEAN, a : BOOLEAN, thumb : 0..PadDirs]
    ELSE { NoPad }

\* radial_menu(ui, &menu, stick, ..) of practice_tool_core: the entry whose
\* sector the stick points into, none for an empty menu or a resting stick.
radial_menu(menu, stick) ==
    IF stick = 0 \/ Len(menu) = 0 THEN None
    ELSE Some(((stick - 1) % Len(menu)) + 1)

\* Mutation: the menu opens on either shoulder button.
radial_open_either(sample) == sample.lb \/ sample.rb

\* wButtons.contains(LEFT_SHOULDER) && wButtons.contains(RIGHT_SHOULDER)
radial_open(sample) == sample.lb /\ sample.rb

\* contained_a && !wButtons.contains(XINPUT_GAMEPAD_A)
radial_commits(contained_a, sample) == contained_a /\ ~sample.a

\* render_radial, given the sample XINPUTGETSTATE returns on this frame.
render_radial(state, stick, queue, sample, menu) ==
    LET contained_a == state.a
        stick2      == IF radial_open(sample) /\ sample.thumb # 0
                       THEN sample.thumb ELSE stick
        menu_out    == radial_menu(menu, stick2)
        keys        == IF /\ radial_open(sample)
                          /\ radial_commits(contained_a, sample)
                          /\ menu_out # None
                       THEN menu[menu_out[1]] ELSE << >>
    IN  [gamepad_state |-> sample,
         gamepad_stick |-> stick2,
         BLOCK_XINPUT  |-> radial_open(sample),
         press_queue   |-> queue \o keys,
         committed     |-> keys]

\* Mutation: the keys sent down are not queued for release.
before_render_no_release(rq, pq) ==
    [emitted       |-> [j \in 1..Len(rq) |-> << rq[j], FALSE >>]
                       \o [j \in 1..Len(pq) |-> << pq[j], TRUE >>],
     release_queue |-> << >>,
     press_queue   |-> << >>]

\* before_render: every key of release_queue goes up, then every key of
\* press_queue goes down and moves to release_queue.
before_render(rq, pq) ==
    [emitted       |-> [j \in 1..Len(rq) |-> << rq[j], FALSE >>]
                       \o [j \in 1..Len(pq) |-> << pq[j], TRUE >>],
     release_queue |-> pq,
     press_queue   |-> << >>]

\* The hook calls before_render once before each render.
pt_before_render ==
    /\ build = "pt" /\ pc = "idle" /\ ~flushed /\ ~ejected
    /\ LET r == before_render(release_queue, press_queue)
       IN  /\ emitted' = r.emitted
           /\ release_queue' = r.release_queue
           /\ press_queue' = r.press_queue
    /\ emitted_prev' = emitted
    /\ flushed' = TRUE
    /\ UNCHANGED << build, env, widgets, ui_state, is_hidden, cursor_show, popup, ws,
                    game, active_id, log, now, next_id, pc, io, ui_state0, branch,
                    trace, fresh, late, overdue, arrived, drawn, block_ret, ejected,
                    gamepad_state, gamepad_stick, BLOCK_XINPUT, pad0, committed,
                    aimed, offvars >>

\* render up to the dispatch: the hotkey handler, then render_radial.
pt_render_hotkey ==
    /\ build = "pt"
    /\ flushed
    /\ flushed' = FALSE
    /\ \E sample \in PadSamples :
         LET r == render_radial(gamepad_state, gamepad_stick, press_queue, sample,
                                env.radial)
         IN  /\ gamepad_state' = r.gamepad_state
             /\ gamepad_stick' = r.gamepad_stick
             /\ BLOCK_XINPUT' = r.BLOCK_XINPUT
             /\ press_queue' = r.press_queue
             /\ committed' = r.committed
             /\ pad0' = gamepad_state
             /\ aimed' = (radial_open(sample) /\ (aimed \/ sample.thumb # 0))
    /\ UNCHANGED << release_queue, emitted, emitted_prev, offvars >>
    /\ \E k \in FrameIo :
         /\ BeginFrame(k)
         /\ IF pt_hotkey_fires(k, active_id)
            THEN LET s == pt_next_ui_state(ui_state,
                                           is_pressed("hide", k.keys, active_id), is_hidden)
                 IN  /\ ui_state' = s
                     /\ cursor_show' = cursor_after_hotkey(s, cursor_show)
            ELSE UNCHANGED << ui_state, cursor_show >>
         /\ LoadFits(k, ui_state')


\* ------------------------------------------------------------ user's mouse
\* What the user can do to the controls of widget w in the tool window.  With
\* the widget's modal up only the modal's controls respond; without it only its
\* open button does.  The bound MaxMsgs limits clicks on the spawn button.
WidgetInputs(w, st) ==
    IF ~env.mouse THEN { }
    ELSE IF ~ModalOf(w) THEN { [click |-> "open", edit |-> << >>] }
    ELSE IF w.kind = "stats"
    THEN { [click |-> c, edit |-> << >>] : c \in {"apply", "close", "focus", "blur"} }
         \cup { [click |-> "none", edit |-> e] : e \in env.edits }
    ELSE { [click |-> c, edit |-> << >>] : c \in {"close", "focus", "blur", "reset"} }
         \cup { [click |-> "pick", edit |-> p] : p \in env.picks }
         \cup (IF st.next_id < MaxMsgs
               THEN { [click |-> "spawn", edit |-> << >>] } ELSE { })

\* The user's dealings with the tool window in one frame: at most one control,
\* of widget `at` (0: none of them), or one of the window's own buttons.
ToolWindowInputs(st, buttons) ==
    { [at |-> 0, inp |-> NoInput, btn |-> b] :
        b \in IF env.mouse /\ ~ModalUp(st.ws) THEN buttons \cup {"none"} ELSE {"none"} }
    \cup
    UNION { { [at |-> i, inp |-> x, btn |-> "none"] : x \in WidgetInputs(st.ws[i], st) } :
            i \in { j \in 1..Len(st.ws) : ModalUp(st.ws) => ModalOf(st.ws[j]) } }

Commit(st) ==
    /\ ws' = st.ws
    /\ game' = st.game
    /\ active_id' = st.active
    /\ next_id' = st.next_id
    /\ trace' = st.trace

\* ------------------------------------------------------ lib.rs: MenuOpen
\* UiState::MenuOpen => { cursor_show.set(true); self.render_visible(ui) }
\* First half of render_visible: every widget's interact.
lib_render_visible_interact ==
    /\ build = "lib" /\ pc = "dispatch" /\ ui_state = "MenuOpen"
    /\ cursor_show' = TRUE
    /\ Commit(InteractFrom(1, St, io.keys))
    /\ pc' = "visible"
    /\ branch' = "visible"
    /\ UNCHANGED << build, env, widgets, ui_state, is_hidden, popup, log, now, io,
                    ui_state0, fresh, late, overdue, arrived, drawn, block_ret, ejected >>
    /\ UNCHANGED << padvars, offvars >>

\* Second half of render_visible: every widget's render, then the Close and
\* Unload buttons (Unload is compiled in when CARGO_XTASK_DIST is unset).
lib_render_visible ==
    /\ build = "lib" /\ pc = "visible"
    /\ \E u \in ToolWindowInputs(St, {"close", "unload"}) :
         /\ Commit(RenderFrom(1, St, io.keys, u.at, u.inp))
         /\ IF u.btn \in {"close", "unload"}
            THEN ui_state' = "Closed" /\ cursor_show' = FALSE
            ELSE UNCHANGED << ui_state, cursor_show >>
         /\ ejected' = (u.btn = "unload")
    /\ pc' = "drain"
    /\ UNCHANGED << build, env, widgets, is_hidden, popup, log, now, io, ui_state0,
                    branch, fresh, late, overdue, arrived, drawn, block_ret >>
    /\ UNCHANGED << padvars, offvars >>

\* ------------------------------------------------------ lib.rs: Closed
\* The bar of the closed mode: what the user can click in it.
BarInputs(buttons) ==
    IF ~env.mouse THEN {"none"}
    ELSE IF popup # "none" THEN {"none", "popup_close"}
    ELSE buttons \cup {"none"}

\* render_closed: Open button, Help button and its modal, the IGT text, then
\* every widget's render_closed, then every widget's interact.
lib_render_closed ==
    /\ build = "lib" /\ pc = "dispatch" /\ ui_state = "Closed"
    /\ \E c \in BarInputs({"open", "help"}) :
         LET p1 == IF c = "help" THEN "help" ELSE popup
         IN  /\ ui_state' = IF c = "open" THEN "MenuOpen" ELSE ui_state
             /\ popup' = IF c = "popup_close" THEN "none" ELSE p1
             /\ cursor_show' = IF p1 = "none" THEN cursor_show
                               ELSE IF c = "popup_close" THEN FALSE ELSE TRUE
    /\ Commit(InteractFrom(1, RenderClosedFrom(1, St), io.keys))
    /\ pc' = "drain"
    /\ branch' = "closed"
    /\ UNCHANGED << build, env, widgets, is_hidden, log, now, io, ui_state0,
                    fresh, late, overdue, arrived, drawn, block_ret, ejected >>
    /\ UNCHANGED << padvars, offvars >>

\* ------------------------------------------------------ lib.rs: Hidden
lib_render_hidden ==
    /\ build = "lib" /\ pc = "dispatch" /\ ui_state = "Hidden"
    /\ Commit(InteractFrom(1, St, io.keys))
    /\ pc' = "drain"
    /\ branch' = "hidden"
    /\ UNCHANGED << build, env, widgets, ui_state, is_hidden, cursor_show, popup, log,
                    now, io, ui_state0, fresh, late, overdue, arrived, drawn, block_ret, ejected >>
    /\ UNCHANGED << padvars, offvars >>


\* ------------------------------------------------------------ the frame log
\* Mutation: an entry exactly five seconds old survives.
retain_inclusive(lg, t) == SelectSeq(lg, LAMBDA e : t - e.tm <= LogTTL)

\* self.log.retain(|(tm, _)| tm.elapsed() < Duration::from_secs(5))
retain(lg, t) == SelectSeq(lg, LAMBDA e : t - e.tm < LogTTL)

\* self.log.extend(logs.into_iter().map(|l| (now, l)))
RECURSIVE extend(_, _, _)
extend(lg, msgs, t) ==
    IF msgs = << >> THEN lg
    ELSE extend(Append(lg, [tm |-> t, msg |-> Head(msgs)]), Tail(msgs), t)

\* Mutation: log() hands the lines out and keeps them.
Widget_log_kept(w) == w

\* Widget::log: the stats editor keeps the trait's default and has no log.
Widget_log(w) == IF w.kind = "spawner" THEN ItemSpawner_log(w) ELSE None
Widget_log_taken(w) == IF w.kind = "spawner" THEN [w EXCEPT !.log = None] ELSE w

\* The lines an Option<Vec<String>> carries: none when it is None.
Lines(o) == IF o = None THEN << >> ELSE o[1]

Ids(entries) == { entries[j].msg.id : j \in 1..Len(entries) }

\* lib.rs: for w in &mut self.widgets { if let Some(logs) = w.log() { extend }
\*                                      retain }
\* d = [ws, log, fresh, arrived]
RECURSIVE lib_drain_from(_, _, _)
lib_drain_from(i, d, t) ==
    IF i > Len(d.ws) THEN d
    ELSE LET out == Lines(Widget_log(d.ws[i]))
         IN  lib_drain_from(i + 1,
                 [ws      |-> [d.ws EXCEPT ![i] = Widget_log_taken(@)],
                  log     |-> retain(extend(d.log, out, t), t),
                  fresh   |-> d.fresh \cup { out[j].id : j \in 1..Len(out) },
                  arrived |-> extend(d.arrived, out, t)],
                 t)

lib_render_drain ==
    /\ build = "lib" /\ pc = "drain"
    /\ LET d == lib_drain_from(1, [ws |-> ws, log |-> log, fresh |-> { },
                                  arrived |-> arrived], now)
       IN  ws' = d.ws /\ log' = d.log /\ fresh' = d.fresh /\ arrived' = d.arrived
    /\ pc' = "logs"
    /\ UNCHANGED << build, env, widgets, ui_state, is_hidden, cursor_show, popup, game,
                    active_id, now, next_id, io, ui_state0, branch, trace, late,
                    overdue, drawn, block_ret, ejected >>
    /\ UNCHANGED << padvars, offvars >>

\* The frame is over: what render_logs drew, and which fresh messages it left out.
EndFrame(shown) ==
    /\ drawn' = shown
    /\ overdue' = overdue \cup (late \ Ids(shown))
    /\ late' = fresh \ Ids(shown)
    /\ pc' = "idle"
    /\ io' = NoIo
    /\ ui_state0' = ui_state
    /\ branch' = "none"
    /\ trace' = << >>
    /\ UNCHANGED << build, env, widgets, ui_state, is_hidden, cursor_show, popup, ws,
                    game, active_id, log, now, next_id, fresh, arrived, block_ret,
                    ejected >>
    /\ UNCHANGED << padvars, offvars >>

\* lib.rs render_logs: for l in self.log.iter() { ui.text(&l.1); }
lib_logs_shown(lg) == lg

lib_render_logs ==
    /\ build = "lib" /\ pc = "logs"
    /\ EndFrame(lib_logs_shown(log))

\* Mutation: messages blocked whenever the bar or the menu is on screen.
should_block_messages_unless_hidden(s) == s # "Hidden"

\* fn should_block_messages(&self, _: &Io) -> bool
should_block_messages(s) ==
    IF s = "MenuOpen" THEN TRUE
    ELSE IF s = "Closed" THEN FALSE
    ELSE FALSE

\* The hook asks should_block_messages for a window message between two frames.
lib_wnd_proc ==
    /\ build = "lib" /\ pc = "idle" /\ ~ejected
    /\ block_ret' = Some(should_block_messages(ui_state))
    /\ UNCHANGED << build, env, widgets, ui_state, is_hidden, cursor_show, popup, ws,
                    game, active_id, log, now, next_id, pc, io, ui_state0, branch,
                    trace, fresh, late, overdue, arrived, drawn, ejected >>
    /\ UNCHANGED << padvars, offvars >>

\* The clock advances between two frames, by any amount.
Tick ==
    /\ pc = "idle" /\ env.clock /\ ~ejected
    /\ \E t \in (now + 1)..MaxTime : now' = t
    /\ UNCHANGED << build, env, widgets, ui_state, is_hidden, cursor_show, popup, ws,
                    game, active_id, log, next_id, pc, io, ui_state0, branch, trace,
                    fresh, late, overdue, arrived, drawn, block_ret, ejected >>
    /\ UNCHANGED << padvars, offvars >>


\* ================================================ practice_tool.rs: the modes
\* UiState::MenuOpen => { cursor_show.set(true); self.render_visible(ui) }
\* First half of render_visible:
\*   if !(ui.io().want_capture_keyboard && ui.is_any_item_active()) { interact all }
pt_interact_allowed(k, active) == ~(k.wck /\ active # "none")

pt_render_visible_interact ==
    /\ build = "pt" /\ pc = "dispatch" /\ ui_state = "MenuOpen"
    /\ cursor_show' = TRUE
    /\ IF pt_interact_allowed(io, active_id)
       THEN Commit(InteractFrom(1, St, io.keys))
       ELSE UNCHANGED << ws, game, active_id, next_id, trace >>
    /\ pc' = "visible"
    /\ branch' = "visible"
    /\ UNCHANGED << build, env, widgets, ui_state, is_hidden, popup, log, now, io,
                    ui_state0, fresh, late, overdue, arrived, drawn, block_ret, ejected >>
    /\ UNCHANGED << padvars, offvars >>

\* Mutation: the Close button always leads to Closed.
pt_close_state_closed(hidden) == "Closed"

\* The Close button of render_visible:
\* self.ui_state = if self.is_hidden { UiState::Hidden } else { UiState::Closed }
pt_close_state(hidden) == IF hidden THEN "Hidden" ELSE "Closed"

\* Second half of render_visible: every widget's render, then Close, and
\* Unhide (when is_hidden) or Unload (otherwise; it also restores the Darksign
\* icon before it ejects).
pt_render_visible ==
    /\ build = "pt" /\ pc = "visible"
    /\ \E u \in ToolWindowInputs(St, {"close"} \cup
                                     (IF is_hidden THEN {"unhide"} ELSE {"unload"})) :
         /\ Commit(RenderFrom(1, St, io.keys, u.at, u.inp))
         /\ IF u.btn = "close"
            THEN /\ ui_state' = pt_close_state(is_hidden)
                 /\ cursor_show' = FALSE
                 /\ UNCHANGED is_hidden
            ELSE IF u.btn = "unhide"
            THEN /\ is_hidden' = FALSE
                 /\ ui_state' = "Closed"
                 /\ cursor_show' = FALSE
            ELSE IF u.btn = "unload"
            THEN /\ ui_state' = "Closed"
                 /\ cursor_show' = FALSE
                 /\ UNCHANGED is_hidden
            ELSE UNCHANGED << ui_state, cursor_show, is_hidden >>
         /\ ejected' = (u.btn = "unload")
    /\ pc' = "drain"
    /\ UNCHANGED << build, env, widgets, popup, log, now, io, ui_state0, branch,
                    fresh, late, overdue, arrived, drawn, block_ret >>
    /\ UNCHANGED << padvars, offvars >>

\* render_closed: Open, Indicators and its modal, Hide, Help and its modal, the
\* indicators, then every widget's render_closed, then every widget's interact.
pt_render_closed ==
    /\ build = "pt" /\ pc = "dispatch" /\ ui_state = "Closed"
    /\ \E c \in BarInputs({"open", "indicators", "hide", "help"}) :
         LET p1 == IF c \in {"indicators", "help"} THEN c ELSE popup
         IN  /\ ui_state' = IF c = "open" THEN "MenuOpen"
                            ELSE IF c = "hide" THEN "Hidden" ELSE ui_state
             /\ is_hidden' = IF c = "hide" THEN TRUE ELSE is_hidden
             /\ popup' = IF c = "popup_close" THEN "none" ELSE p1
             /\ cursor_show' = IF c = "hide" THEN FALSE
                               ELSE IF p1 = "none" THEN cursor_show
                               ELSE IF c = "popup_close" THEN FALSE ELSE TRUE
    /\ Commit(InteractFrom(1, RenderClosedFrom(1, St), io.keys))
    /\ pc' = "drain"
    /\ branch' = "closed"
    /\ UNCHANGED << build, env, widgets, log, now, io, ui_state0,
                    fresh, late, overdue, arrived, drawn, block_ret, ejected >>
    /\ UNCHANGED << padvars, offvars >>

pt_render_hidden ==
    /\ build = "pt" /\ pc = "dispatch" /\ ui_state = "Hidden"
    /\ Commit(InteractFrom(1, St, io.keys))
    /\ pc' = "drain"
    /\ branch' = "hidden"
    /\ UNCHANGED << build, env, widgets, ui_state, is_hidden, cursor_show, popup, log,
                    now, io, ui_state0, fresh, late, overdue, arrived, drawn, block_ret, ejected >>
    /\ UNCHANGED << padvars, offvars >>

\* for w in &mut self.widgets { w.log(self.log_tx.clone()); }: what the channel
\* holds once every widget has sent, and the widgets after it.
RECURSIVE pt_log_sent(_, _)
pt_log_sent(i, d) ==
    IF i > Len(d.ws) THEN d
    ELSE pt_log_sent(i + 1, [ws   |-> [d.ws EXCEPT ![i] = Widget_log_taken(@)],
                            chan |-> d.chan \o Lines(Widget_log(d.ws[i]))])

\* let now = Instant::now(); self.log.extend(self.log_rx.try_iter()...); retain
pt_render_drain ==
    /\ build = "pt" /\ pc = "drain"
    /\ LET d == pt_log_sent(1, [ws |-> ws, chan |-> << >>])
       IN  /\ ws' = d.ws
           /\ log' = retain(extend(log, d.chan, now), now)
           /\ fresh' = { d.chan[j].id : j \in 1..Len(d.chan) }
           /\ arrived' = extend(arrived, d.chan, now)
    /\ pc' = "logs"
    /\ UNCHANGED << build, env, widgets, ui_state, is_hidden, cursor_show, popup, game,
                    active_id, now, next_id, io, ui_state0, branch, trace, late,
                    overdue, drawn, block_ret, ejected >>
    /\ UNCHANGED << padvars, offvars >>

\* Mutation: take(3) without the rev(): the three oldest entries.
pt_logs_shown_oldest(lg) ==
    IF Len(lg) <= LogShown THEN lg ELSE SubSeq(lg, 1, LogShown)

\* render_logs: for l in self.log.iter().rev().take(3).rev() { ui.text(&l.1); }
pt_logs_shown(lg) ==
    IF Len(lg) <= LogShown THEN lg ELSE SubSeq(lg, Len(lg) - LogShown + 1, Len(lg))

pt_render_logs ==
    /\ build = "pt" /\ pc = "logs"
    /\ EndFrame(pt_logs_shown(log))


\* ================================================== item_spawn.rs: the filter
\* Text is a sequence of characters.  The characters of item names and filters:
\* two letters in both cases, and a capital whose lower case is two characters
\* (as U+0130, which lower-cases to "i" and a combining dot).
Alphabet == {"a", "A", "b", "B", "I_dot"}

\* char::to_lowercase: the characters a character lower-cases to.
to_lowercase(c) ==
    IF c = "A" THEN << "a" >>
    ELSE IF c = "B" THEN << "b" >>
    ELSE IF c = "L" THEN << "l" >>
    ELSE IF c = "W" THEN << "w" >>
    ELSE IF c = "I_dot" THEN << "i", "dot" >>
    ELSE << c >>

\* s.chars().flat_map(char::to_lowercase)
RECURSIVE lowered(_)
lowered(s) == IF s = << >> THEN << >> ELSE to_lowercase(Head(s)) \o lowered(Tail(s))

\* Mutation: every needle character searches the haystack from its head.
string_match_restarting(needle, haystack) ==
    \A j \in 1..Len(lowered(needle)) :
        \E k \in 1..Len(lowered(haystack)) : lowered(haystack)[k] = lowered(needle)[j]

\* The loops of string_match: each needle character consumes the haystack
\* iterator up to and including its first match; running dry is a mismatch.
RECURSIVE string_match_loop(_, _)
string_match_loop(n, h) ==
    IF n = << >> THEN TRUE
    ELSE IF h = << >> THEN FALSE
    ELSE IF Head(n) = Head(h) THEN string_match_loop(Tail(n), Tail(h))
    ELSE string_match_loop(n, Tail(h))

string_match(needle, haystack) == string_match_loop(lowered(needle), lowered(haystack))

\* Texts of at most MaxLen characters.
Texts == UNION { [1..n -> Alphabet] : n \in 0..MaxLen }

\* The filter is matched against an item name.
call_string_match ==
    /\ call = NoCall
    /\ \E needle, haystack \in Texts :
         call' = [fn |-> "string_match", needle |-> needle, haystack |-> haystack,
                  ret |-> string_match(needle, haystack)]
    /\ UNCHANGED << framevars, padvars, inj, boot >>

\* ------------------------------------------------ ItemIDNode::filter
\* ItemIDNode and ItemIDNodeRef.
Leaf(id, desc) == [tag |-> "Leaf", id |-> id, desc |-> desc]
Node(node, children) == [tag |-> "Node", node |-> node, children |-> children]
RefLeaf(node, value) == [tag |-> "RefLeaf", node |-> node, value |-> value]
RefNode(node, children) == [tag |-> "RefNode", node |-> node, children |-> children]

\* impl From<&ItemIDNode> for ItemIDNodeRef
RECURSIVE ItemIDNodeRef_from(_)
ItemIDNodeRef_from(n) ==
    IF n.tag = "Leaf" THEN RefLeaf(n.desc, n.id)
    ELSE RefNode(n.node, [k \in 1..Len(n.children) |-> ItemIDNodeRef_from(n.children[k])])

\* children.iter().filter_map(..).collect(): the Some values, in order.
RECURSIVE filter_map(_)
filter_map(opts) ==
    IF opts = << >> THEN << >>
    ELSE IF Head(opts) = None THEN filter_map(Tail(opts))
    ELSE << Head(opts)[1] >> \o filter_map(Tail(opts))

\* Mutation: a node whose own name matches is kept whole.
RECURSIVE ItemIDNode_filter_by_name(_, _)
ItemIDNode_filter_by_name(n, filter) ==
    IF filter = << >> THEN Some(ItemIDNodeRef_from(n))
    ELSE IF n.tag = "Leaf"
    THEN IF string_match(filter, n.desc) THEN Some(RefLeaf(n.desc, n.id)) ELSE None
    ELSE IF string_match(filter, n.node) THEN Some(ItemIDNodeRef_from(n))
    ELSE LET children ==
                 filter_map([k \in 1..Len(n.children) |->
                                ItemIDNode_filter_by_name(n.children[k], filter)])
         IN  IF children = << >> THEN None ELSE Some(RefNode(n.node, children))

\* ItemIDNode::filter
RECURSIVE ItemIDNode_filter(_, _)
ItemIDNode_filter(n, filter) ==
    IF filter = << >> THEN Some(ItemIDNodeRef_from(n))
    ELSE IF n.tag = "Leaf"
    THEN IF string_match(filter, n.desc) THEN Some(RefLeaf(n.desc, n.id)) ELSE None
    ELSE LET children ==
                 filter_map([k \in 1..Len(n.children) |->
                                ItemIDNode_filter(n.children[k], filter)])
         IN  IF children = << >> THEN None ELSE Some(RefNode(n.node, children))

\* Catalogue entries: three leaves, the groups of at most two leaves, and the
\* groups of at most two of those; and the group of the two swords.
TreeLeaves ==
    { Leaf(1, << "a" >>), Leaf(2, << "B", "a" >>), Leaf(3, << "b" >>) }
SeqsUpTo2(S) == UNION { [1..n -> S] : n \in 0..2 }
TreeGroups == { Node(<< "a", "b" >>, c) : c \in SeqsUpTo2(TreeLeaves) }
Weapons ==
    Node(<< "W", "e", "a", "p", "o", "n", "s" >>,
         << Leaf(4, << "L", "o", "n", "g", "s", "w", "o", "r", "d" >>),
            Leaf(5, << "B", "r", "o", "a", "d", "s", "w", "o", "r", "d" >>) >>)
Trees ==
    TreeLeaves \cup { Weapons }
       \cup { Node(<< "b" >>, c) : c \in SeqsUpTo2(TreeLeaves \cup TreeGroups) }

\* The filter texts: the short ones and "bro".
Filters == Texts \cup { << "b", "r", "o" >> }

\* A catalogue entry is filtered.
call_filter ==
    /\ call = NoCall
    /\ \E n \in Trees, filter \in Filters :
         call' = [fn |-> "filter", n |-> n, filter |-> filter,
                  ret |-> ItemIDNode_filter(n, filter)]
    /\ UNCHANGED << framevars, padvars, inj, boot >>

\* ============================================== render_closed: in-game time
\* The decimal digits of n, most significant first.
RECURSIVE decimal(_)
decimal(n) ==
    LET d == << "0", "1", "2", "3", "4", "5", "6", "7", "8", "9" >>[(n % 10) + 1]
    IN  IF n < 10 THEN << d >> ELSE decimal(n \div 10) \o << d >>

\* Mutation: the number is written without padding.
pad02_unpadded(n) == decimal(n)

\* {:02}: at least two digits, zeros on the left.
pad02(n) == IF n < 10 THEN << "0" >> \o decimal(n) ELSE decimal(n)

\* The text before the digits: "IGT " in practice_tool.rs; in lib.rs the five
\* characters U+6E38 U+620F U+5185 U+65F6 U+95F4 and a space.
igt_label(b) ==
    IF b = "pt" THEN << "I", "G", "T", " " >>
    ELSE << "U+6E38", "U+620F", "U+5185", "U+65F6", "U+95F4", " " >>

\* The in-game time line of render_closed for a reading of igt milliseconds.
igt_text(b, igt) ==
    LET millis        == (igt % 1000) \div 10
        total_seconds == igt \div 1000
        seconds       == total_seconds % 60
        minutes       == (total_seconds \div 60) % 60
        hours         == total_seconds \div 3600
    IN  igt_label(b) \o pad02(hours) \o << ":" >> \o pad02(minutes) \o << ":" >>
          \o pad02(seconds) \o << "." >> \o pad02(millis)

\* Readings of the in-game time: hours of one to three digits, and minutes,
\* seconds and milliseconds at and next to every carry.
IgtSamples ==
    { h * 3600000 + m * 60000 + s * 1000 + ms :
        h \in {0, 1, 9, 10, 99, 100, 595}, m \in {0, 2, 59}, s \in {0, 5, 59},
        ms \in {0, 9, 10, 123, 990, 999} }

\* render_closed reads the in-game time and writes its line.
call_igt_text ==
    /\ call = NoCall
    /\ \E igt \in IgtSamples :
         call' = [fn |-> "igt_text", igt |-> igt, ret |-> igt_text(build, igt)]
    /\ UNCHANGED << framevars, padvars, inj, boot >>

\* ========================================= item_spawn.rs: the spawn request
\* The numbers of INFUSION_TYPES and of UPGRADES, in table order.
INFUSION_TYPES ==
    << 0, 100, 200, 300, 400, 500, 600, 700, 800, 900, 1000, 1100, 1200, 1300, 1400,
       1500 >>
UPGRADES == << 0, 1, 2, 3, 4, 5, 6, 7, 8, 9, 10 >>

\* A u32 is kept as its two 16-bit halves << high, low >>.
\* u32 + u32 for a second operand below 2^16: the wrapped sum and whether the
\* true sum passed 2^32 - 1.
u32_add(a, b) ==
    LET lo == a[2] + b
        hi == a[1] + (lo \div 65536)
    IN  [val |-> << hi % 65536, lo % 65536 >>, overflow |-> hi >= 65536]

\* Mutation: the upgrade is left out of the item id.
ItemSpawnInstance_spawn_no_upgrade(i) ==
    LET s1 == u32_add(i.item_id, i.infusion)
    IN  IF s1.overflow
        THEN { [kind |-> "panic"],
               [kind |-> "called",
                request |-> [unknown |-> 1, item_id |-> s1.val, qty |-> i.qty,
                             durability |-> i.durability]] }
        ELSE { [kind |-> "called",
                request |-> [unknown |-> 1, item_id |-> s1.val, qty |-> i.qty,
                             durability |-> i.durability]] }

\* ItemSpawnInstance::spawn: the request handed to the game's function.
\* self.item_id + self.infusion + self.upgrade is u32 arithmetic: past
\* 2^32 - 1 it panics in a build with overflow checks and wraps in one without.
ItemSpawnInstance_spawn(i) ==
    LET s1 == u32_add(i.item_id, i.infusion)
        s2 == u32_add(s1.val, i.upgrade)
        called == [kind |-> "called",
                   request |-> [unknown |-> 1, item_id |-> s2.val, qty |-> i.qty,
                                durability |-> i.durability]]
    IN  IF s1.overflow \/ s2.overflow THEN { [kind |-> "panic"], called } ELSE { called }

\* ItemSpawner::spawn in a live game: the instance built from the selection.
ItemSpawnInstance_of(sel) ==
    [qty |-> sel.qty, durability |-> sel.durability,
     upgrade |-> UPGRADES[sel.upgrade + 1],
     infusion |-> INFUSION_TYPES[sel.infusion_type + 1],
     item_id |-> sel.item_id]

\* Selections: base ids from zero to 2^32 - 1 (HexU32 takes any eight hex
\* digits), among them 0x40000B67 and the ids next to a carry and to the top;
\* every infusion and upgrade; the ends of the two sliders.
RequestSelections ==
    [item_id : { << 0, 0 >>, << 0, 65535 >>, << 16384, 0 >>, << 16384, 2919 >>,
                 << 32767, 65535 >>, << 65535, 0 >>, << 65535, 64025 >>,
                 << 65535, 64026 >>, << 65535, 65535 >> },
     infusion_type : 0..15, upgrade : 0..10, qty : {1, 99}, durability : {0, 100, 9999}]

\* The spawner spawns its selection in a live game.
call_spawn ==
    /\ call = NoCall
    /\ \E sel \in RequestSelections :
         \E r \in ItemSpawnInstance_spawn(ItemSpawnInstance_of(sel)) :
            call' = [fn |-> "spawn", sel |-> sel, ret |-> r]
    /\ UNCHANGED << framevars, padvars, inj, boot >>

\* ================================================== config.rs: Config::parse
\* A TOML value carries its type: [t |-> "str" | "int" | "bool" | "list", v |-> ..];
\* a TOML table is a record of such values.  Result<T, E> is [ok |-> TRUE, val]
\* or [ok |-> FALSE, err], an error text a sequence of pieces.
TStr(v) == [t |-> "str", v |-> v]
TInt(v) == [t |-> "int", v |-> v]
TBool(v) == [t |-> "bool", v |-> v]
TList(v) == [t |-> "list", v |-> v]
Ok(x) == [ok |-> TRUE, val |-> x]
Err(m) == [ok |-> FALSE, err |-> m]

Has(tbl, k) == k \in DOMAIN tbl

\* Key names util::get_key_code knows; levels LevelFilter::from_str knows.
KeyNames == {"0", "f1", "g"}
LevelNames == {"OFF", "ERROR", "WARN", "INFO", "DEBUG", "TRACE"}

\* The names FlagSpec::try_from accepts.
FlagNames ==
    {"all_no_damage", "inf_stamina", "inf_focus", "inf_consumables", "deathcam",
     "no_death", "one_shot", "evt_draw", "evt_disable", "ai_disable", "rend_chr",
     "rend_obj", "rend_map", "rend_mesh_hi", "rend_mesh_lo", "rend_mesh_hit",
     "debug_draw", "hurtbox", "all_draw_hit", "ik_foot_ray", "debug_sphere_1",
     "debug_sphere_2", "gravity"}

\* FlagSpec::try_from: the flag of that name, or an error quoting the value.
FlagSpec_try_from(value) ==
    IF value \in FlagNames THEN Ok(value)
    ELSE Err(<< value, " is not a valid flag specifier" >>)

\* LevelFilterSerde::try_from
LevelFilterSerde_try_from(value) ==
    IF value \in LevelNames THEN Ok(value)
    ELSE Err(<< "Couldn't parse log level filter: ", value >>)

\* Whether a value deserializes as the type of a field.
IsKeyState(x) == x.t = "str" /\ x.v \in KeyNames
IsFlagSpec(x) == x.t = "str" /\ FlagSpec_try_from(x.v).ok
IsNumber(x) == x.t = "int"
IsU32(x) == x.t = "int" /\ x.v # "-1"
IsString(x) == x.t = "str"
IsMenuKind(x) == x.t = "str" /\ x.v \in {"travel", "attune"}
IsNumbers(x) == x.t = "list" /\ \A j \in 1..Len(x.v) : x.v[j].t = "int"

\* #[serde(untagged)] enum CfgCommand: the first variant, in declaration order,
\* that the entry deserializes as: its required fields are there and every field
\* it names deserializes; keys no variant names are ignored.  The errors of the
\* variants tried are dropped.
RECURSIVE CfgCommand_deserialize(_)
CfgCommand_deserialize(e) ==
    LET IsCommands(x) ==
            x.t = "list" /\ \A j \in 1..Len(x.v) : CfgCommand_deserialize(x.v[j]) # None
    IN  IF (Has(e, "savefile_manager") /\ IsKeyState(e.savefile_manager)) /\ (Has(e, "hotkey_open") => IsKeyState(e.hotkey_open))
        THEN Some("SavefileManager")
        ELSE IF (Has(e, "item_spawner") /\ IsKeyState(e.item_spawner)) THEN Some("ItemSpawner")
        ELSE IF (Has(e, "flag") /\ IsFlagSpec(e.flag)) /\ (Has(e, "hotkey") => IsKeyState(e.hotkey)) THEN Some("Flag")
        ELSE IF (Has(e, "position") /\ IsKeyState(e.position)) /\ (Has(e, "modifier") /\ IsKeyState(e.modifier))
        THEN Some("Position")
        ELSE IF (Has(e, "cycle_speed") /\ IsNumbers(e.cycle_speed)) /\ (Has(e, "hotkey") /\ IsKeyState(e.hotkey))
        THEN Some("CycleSpeed")
        ELSE IF (Has(e, "character_stats") /\ IsKeyState(e.character_stats)) THEN Some("CharacterStats")
        ELSE IF (Has(e, "souls") /\ IsU32(e.souls)) /\ (Has(e, "hotkey") /\ IsKeyState(e.hotkey)) THEN Some("Souls")
        ELSE IF (Has(e, "open_menu") /\ IsMenuKind(e.open_menu)) /\ (Has(e, "hotkey") => IsKeyState(e.hotkey))
        THEN Some("OpenMenu")
        ELSE IF (Has(e, "quitout") /\ IsKeyState(e.quitout)) THEN Some("Quitout")
        ELSE IF (Has(e, "target") /\ IsKeyState(e.target)) THEN Some("Target")
        ELSE IF /\ (Has(e, "nudge") /\ IsNumber(e.nudge)) /\ (Has(e, "nudge_up") /\ IsKeyState(e.nudge_up))
                /\ (Has(e, "nudge_down") /\ IsKeyState(e.nudge_down))
        THEN Some("NudgePosition")
        ELSE IF (Has(e, "group") /\ IsString(e.group)) /\ (Has(e, "commands") /\ IsCommands(e.commands))
        THEN Some("Group")
        ELSE None

\* Option<KeyState> of a key that may be absent.
OptKey(e, k) == IF Has(e, k) THEN Some(e[k].v) ELSE None

\* The CfgCommand an entry deserializes to: the variant with its fields.
RECURSIVE CfgCommand_value(_)
CfgCommand_value(e) ==
    LET variant == CfgCommand_deserialize(e)[1]
    IN  IF variant = "SavefileManager"
        THEN [variant |-> variant, hotkey_load |-> e.savefile_manager.v,
              hotkey_open |-> OptKey(e, "hotkey_open")]
        ELSE IF variant = "ItemSpawner"
        THEN [variant |-> variant, hotkey_load |-> e.item_spawner.v]
        ELSE IF variant = "Flag"
        THEN [variant |-> variant, flag |-> FlagSpec_try_from(e.flag.v).val,
              hotkey |-> OptKey(e, "hotkey")]
        ELSE IF variant = "Position"
        THEN [variant |-> variant, hotkey |-> e.position.v, modifier |-> e.modifier.v]
        ELSE IF variant = "CycleSpeed"
        THEN [variant |-> variant,
              cycle_speed |-> [j \in 1..Len(e.cycle_speed.v) |-> e.cycle_speed.v[j].v],
              hotkey |-> e.hotkey.v]
        ELSE IF variant = "CharacterStats"
        THEN [variant |-> variant, hotkey_open |-> e.character_stats.v]
        ELSE IF variant = "Souls"
        THEN [variant |-> variant, amount |-> e.souls.v, hotkey |-> e.hotkey.v]
        ELSE IF variant = "OpenMenu"
        THEN [variant |-> variant, kind |-> e.open_menu.v, hotkey |-> OptKey(e, "hotkey")]
        ELSE IF variant = "Quitout" THEN [variant |-> variant, hotkey |-> e.quitout.v]
        ELSE IF variant = "Target" THEN [variant |-> variant, hotkey |-> e.target.v]
        ELSE IF variant = "NudgePosition"
        THEN [variant |-> variant, nudge |-> e.nudge.v, nudge_up |-> e.nudge_up.v,
              nudge_down |-> e.nudge_down.v]
        ELSE [variant |-> variant, label |-> e.group.v,
              commands |-> [j \in 1..Len(e.commands.v) |-> CfgCommand_value(e.commands.v[j])]]

\* What serde reports when no variant fits.
NoVariant == << "data did not match any variant of untagged enum CfgCommand" >>

\* The errors deserializing the document as Config can end in: one per fault
\* of the document (which is met first depends on the order of its keys).
Config_errors(doc) ==
    (IF ~Has(doc, "commands") THEN { << "missing field ", "commands" >> }
     ELSE IF doc.commands.t # "list" THEN { << "invalid type" >> }
     ELSE { NoVariant : j \in { i \in 1..Len(doc.commands.v) :
                                  CfgCommand_deserialize(doc.commands.v[i]) = None } })
    \cup
    (IF ~Has(doc, "settings") THEN { << "missing field ", "settings" >> }
     ELSE LET s == doc.settings
          IN  (IF ~Has(s, "log_level") THEN { << "missing field ", "log_level" >> }
               ELSE IF s.log_level.t # "str" THEN { << "invalid type" >> }
               ELSE IF ~LevelFilterSerde_try_from(s.log_level.v).ok
               THEN { LevelFilterSerde_try_from(s.log_level.v).err } ELSE { })
              \cup
              (IF ~Has(s, "display") THEN { << "missing field ", "display" >> }
               ELSE IF ~IsKeyState(s.display) THEN { << "invalid key" >> } ELSE { })
              \cup
              (IF Has(s, "show_console") /\ s.show_console.t # "bool"
               THEN { << "invalid type" >> } ELSE { }))

\* The Config a faultless document deserializes to.
Config_of(doc) ==
    [settings |-> [log_level    |-> doc.settings.log_level.v,
                   display      |-> doc.settings.display.v,
                   show_console |-> IF Has(doc.settings, "show_console")
                                    THEN doc.settings.show_console.v ELSE FALSE],
     commands |-> [j \in 1..Len(doc.commands.v) |-> CfgCommand_value(doc.commands.v[j])]]

\* Config::parse: toml::from_str::<Config>(cfg).map_err(format!(..)); the set
\* of results it can return for a document.
Config_parse(doc) ==
    IF Config_errors(doc) = { } THEN { Ok(Config_of(doc)) }
    ELSE { Err(<< "TOML configuration parse error: " >> \o m) : m \in Config_errors(doc) }

\* Mutation: the default configuration logs at INFO.
Config_default_info ==
    [settings |-> [log_level |-> "INFO", display |-> "0", show_console |-> FALSE],
     commands |-> << >>]

\* Config::default()
Config_default ==
    [settings |-> [log_level |-> "DEBUG", display |-> "0", show_console |-> FALSE],
     commands |-> << >>]

\* The closure of make_commands_inner: the widget constructed for a command,
\* its kind and the arguments of its constructor; children are a group's widgets.
make_widget(cmd, settings, children) ==
    IF cmd.variant = "Flag"
    THEN [widget |-> "Flag", flag |-> cmd.flag, hotkey |-> cmd.hotkey]
    ELSE IF cmd.variant = "SavefileManager"
    THEN [widget |-> "SavefileManager", hotkey_load |-> cmd.hotkey_load,
          hotkey_open |-> cmd.hotkey_open, display |-> settings.display]
    ELSE IF cmd.variant = "ItemSpawner"
    THEN [widget |-> "ItemSpawner", hotkey_load |-> cmd.hotkey_load,
          display |-> settings.display]
    ELSE IF cmd.variant = "Position"
    THEN [widget |-> "SavePosition", hotkey |-> cmd.hotkey, modifier |-> cmd.modifier]
    ELSE IF cmd.variant = "NudgePosition"
    THEN [widget |-> "NudgePosition", nudge |-> cmd.nudge, nudge_up |-> cmd.nudge_up,
          nudge_down |-> cmd.nudge_down]
    ELSE IF cmd.variant = "CharacterStats"
    THEN [widget |-> "CharacterStatsEdit", hotkey_open |-> cmd.hotkey_open,
          display |-> settings.display]
    ELSE IF cmd.variant = "CycleSpeed"
    THEN [widget |-> "CycleSpeed", cycle_speed |-> cmd.cycle_speed, hotkey |-> cmd.hotkey]
    ELSE IF cmd.variant = "Souls"
    THEN [widget |-> "Souls", amount |-> cmd.amount, hotkey |-> cmd.hotkey]
    ELSE IF cmd.variant = "Quitout" THEN [widget |-> "Quitout", hotkey |-> cmd.hotkey]
    ELSE IF cmd.variant = "OpenMenu"
    THEN [widget |-> "OpenMenu", kind |-> cmd.kind, hotkey |-> cmd.hotkey]
    ELSE IF cmd.variant = "Target" THEN [widget |-> "Target", hotkey |-> cmd.hotkey]
    ELSE [widget |-> "Group", label |-> cmd.label, display |-> settings.display,
          children |-> children]

\* Mutation: a group's commands are spliced into the list around it.
RECURSIVE make_commands_inner_flat(_, _)
make_commands_inner_flat(commands, settings) ==
    IF commands = << >> THEN << >>
    ELSE LET cmd == Head(commands)
         IN  (IF cmd.variant = "Group"
              THEN make_commands_inner_flat(cmd.commands, settings)
              ELSE << make_widget(cmd, settings, << >>) >>)
             \o make_commands_inner_flat(Tail(commands), settings)

\* Config::make_commands_inner: one widget for each command, in order.
RECURSIVE make_commands_inner(_, _)
make_commands_inner(commands, settings) ==
    [j \in 1..Len(commands) |->
       make_widget(commands[j], settings,
                   IF commands[j].variant = "Group"
                   THEN make_commands_inner(commands[j].commands, settings)
                   ELSE << >>)]

\* Config::make_commands
make_commands(config) == make_commands_inner(config.commands, config.settings)

\* Entries of the commands list: of several variants, with an unknown key,
\* with a flag name outside the catalogue, with no variant's keys, with a
\* required key missing, and groups of such entries.
CfgEntries ==
    { [item_spawner |-> TStr("f1")],
      [character_stats |-> TStr("f1")],
      [flag |-> TStr("inf_stamina"), hotkey |-> TStr("f1")],
      [flag |-> TStr("gravity")],
      [item_spawner |-> TStr("f1"), boh |-> TInt("3")],
      [souls |-> TInt("3"), hotkey |-> TStr("0")],
      [flag |-> TStr("nonesuch"), hotkey |-> TStr("f1")],
      [boh |-> TInt("3")],
      [position |-> TStr("f1")],
      [group |-> TStr("g"), commands |-> TList(<< [quitout |-> TStr("f1")] >>)],
      [group |-> TStr("g"), commands |-> TList(<< [flag |-> TStr("nonesuch")] >>)] }

\* Settings tables: complete, with a level or key that does not parse, and
\* with a required key missing.
CfgSettings ==
    { [log_level |-> TStr("DEBUG"), display |-> TStr("0")],
      [log_level |-> TStr("INFO"), display |-> TStr("f1"), show_console |-> TBool(TRUE)],
      [log_level |-> TStr("TRACE"), display |-> TStr("0"), show_console |-> TBool(TRUE)],
      [log_level |-> TStr("nonesuch"), display |-> TStr("0")],
      [log_level |-> TStr("DEBUG")],
      [display |-> TStr("0")] }

\* Configuration documents: a settings table and a commands list, or one of
\* the two alone.
CfgDocs ==
    LET lists == UNION { [1..n -> CfgEntries] : n \in 0..MaxCmds }
    IN  { [settings |-> s, commands |-> TList(c)] : s \in CfgSettings, c \in lists }
        \cup { [commands |-> TList(c)] : c \in lists }
        \cup { [settings |-> s] : s \in CfgSettings }

\* A configuration document is parsed.
call_Config_parse ==
    /\ call = NoCall
    /\ \E doc \in CfgDocs : \E r \in Config_parse(doc) :
         call' = [fn |-> "Config::parse", doc |-> doc, ret |-> r]
    /\ UNCHANGED << framevars, padvars, inj, boot >>

\* The configuration of scenario E1, and one with a group inside a group.
GravityDoc ==
    [settings |-> [log_level |-> TStr("DEBUG"), display |-> TStr("0")],
     commands |-> TList(<< [flag |-> TStr("gravity"), hotkey |-> TStr("g")] >>)]
NestedDoc ==
    [settings |-> [log_level |-> TStr("DEBUG"), display |-> TStr("f1")],
     commands |->
        TList(<< [target |-> TStr("f1")],
                 [group |-> TStr("g"),
                  commands |->
                     TList(<< [open_menu |-> TStr("travel")],
                              [group |-> TStr("h"),
                               commands |-> TList(<< [savefile_manager |-> TStr("f1")],
                                                     [cycle_speed |-> TList(<< TInt("3") >>),
                                                      hotkey |-> TStr("0")] >>)],
                              [nudge |-> TInt("3"), nudge_up |-> TStr("f1"),
                               nudge_down |-> TStr("0")],
                              [group |-> TStr("e"), commands |-> TList(<< >>)] >>)],
                 [position |-> TStr("f1"), modifier |-> TStr("0")] >>)]

\* The documents that parse.
MakeDocs == { doc \in CfgDocs \cup { GravityDoc, NestedDoc } : Config_errors(doc) = { } }

\* A configuration is parsed and its widgets are made.
call_make_commands ==
    /\ call = NoCall
    /\ \E doc \in MakeDocs :
         call' = [fn |-> "make_commands", doc |-> doc, config |-> Config_of(doc),
                  ret |-> make_commands(Config_of(doc))]
    /\ UNCHANGED << framevars, padvars, inj, boot >>

\* ============================================ PracticeTool::new: the config
\* load_config: the path next to the DLL, the file's content, Config::parse.
\* path is get_dll_path()'s Option, file the Result of fs::read_to_string.
load_config(path, file) ==
    IF path = None THEN { Err(<< "Couldn't find config file" >>) }
    ELSE IF ~file.ok THEN { Err(<< "Couldn't read config file: ", file.err >>) }
    ELSE Config_parse(file.val)

\* tracing's levels, most severe first; a subscriber of level max passes an
\* event of level lv when lv is at least as severe.
LevelRank(lv) ==
    CHOOSE n \in 0..5 : << "OFF", "ERROR", "WARN", "INFO", "DEBUG", "TRACE" >>[n + 1] = lv

Enabled(lv, max) == LevelRank(lv) <= LevelRank(max)

\* new() from load_config to make_commands, given load_config's result and the
\* outcome of creating the log file: the configuration in force, the events
\* the subscriber lets through, and the widgets made.
PracticeTool_new(loaded, log_file) ==
    LET config     == IF loaded.ok THEN loaded.val ELSE Config_default
        config_err == IF loaded.ok THEN None ELSE Some(loaded.err)
        max        == config.settings.log_level
        events     == (IF log_file = "no_path"
                       THEN << [level |-> "ERROR",
                                text |-> << "Could not construct log file path" >>] >>
                       ELSE IF log_file = "create_failed"
                       THEN << [level |-> "ERROR",
                                text |-> << "Could not initialize log file" >>] >>
                       ELSE << >>)
                      \o (IF config_err # None
                          THEN << [level |-> "DEBUG", text |-> config_err[1]] >>
                          ELSE << >>)
                      \o << [level |-> "INFO", text |-> << "Initialized" >>] >>
    IN  [config  |-> config,
         logged  |-> SelectSeq(events, LAMBDA ev : Enabled(ev.level, max)),
         console |-> ~(LevelRank(max) < LevelRank("DEBUG") \/ ~config.settings.show_console),
         widgets |-> make_commands(config)]

\* What fs::read_to_string can return for the configuration file.
CfgFiles == { Err("NotFound") } \cup { Ok(doc) : doc \in CfgDocs }

\* The tool is constructed.
call_new ==
    /\ call = NoCall
    /\ \E path \in { None, Some("dll") }, file \in CfgFiles,
          log_file \in { "ok", "no_path", "create_failed" } :
         \E loaded \in load_config(path, file) :
            call' = [fn |-> "new", path |-> path, file |-> file, log_file |-> log_file,
                     loaded |-> loaded, ret |-> PracticeTool_new(loaded, log_file)]
    /\ UNCHANGED << framevars, padvars, inj, boot >>

\* ======================================================== lib.rs: DllMain
\* The loader's notifications: process attach first and once, process detach
\* last, thread attach and detach in between.
Reasons == {"DLL_PROCESS_ATTACH", "DLL_THREAD_ATTACH", "DLL_THREAD_DETACH",
            "DLL_PROCESS_DETACH"}

Notifiable(reason) ==
    /\ Len(boot.calls) < MaxCalls
    /\ (boot.calls = << >>) <=> (reason = "DLL_PROCESS_ATTACH")
    /\ boot.calls # << >> => boot.calls[Len(boot.calls)] # "DLL_PROCESS_DETACH"

\* Mutation: every notification spawns a worker.
DllMain_any_reason ==
    /\ \E reason \in Reasons :
         /\ Notifiable(reason)
         /\ boot' = [boot EXCEPT !.calls = Append(@, reason), !.spawned = @ + 1,
                                 !.worker = IF @ = "none" THEN "load_config" ELSE @]
    /\ UNCHANGED << framevars, padvars, call, inj >>

\* DllMain: on DLL_PROCESS_ATTACH thread::spawn the worker and return; on any
\* other reason return.
DllMain ==
    /\ \E reason \in Reasons :
         /\ Notifiable(reason)
         /\ boot' = IF reason = "DLL_PROCESS_ATTACH"
                    THEN [boot EXCEPT !.calls = Append(@, reason), !.spawned = @ + 1,
                                      !.worker = "load_config"]
                    ELSE [boot EXCEPT !.calls = Append(@, reason)]
    /\ UNCHANGED << framevars, padvars, call, inj >>

\* The worker's step `step` is done and `next` follows.
Worked(step, next) == [boot EXCEPT !.steps = Append(@, step), !.worker = next]

\* PracticeTool::new: load_config() and the subscriber and console set-up.
worker_load_config ==
    /\ boot.worker = "load_config"
    /\ boot' = Worked("load_config", "make_commands")
    /\ UNCHANGED << framevars, padvars, call, inj >>

\* PracticeTool::new: PointerChains::new() and config.make_commands(&pointers).
worker_make_commands ==
    /\ boot.worker = "make_commands"
    /\ boot' = Worked("make_commands", "fixup")
    /\ UNCHANGED << framevars, padvars, call, inj >>

\* PracticeTool::new: the icon of item 117 becomes 116 when the goods
\* parameters hold the item; then info!("Initialized") and the struct.
worker_fixup ==
    /\ boot.worker = "fixup"
    /\ boot' = Worked("fixup", "apply")
    /\ UNCHANGED << framevars, padvars, call, inj >>

\* Hudhook::builder().with(..).with_hmodule(..).build().apply(): the hooks are
\* installed and Ok returned, or nothing is installed and an error returned.
Hudhook_apply == { [result |-> "ok", hooked |-> TRUE], [result |-> "err", hooked |-> FALSE] }

worker_apply ==
    /\ boot.worker = "apply"
    /\ \E r \in Hudhook_apply :
         boot' = [Worked("apply", IF r.result = "err" THEN "error" ELSE "done")
                    EXCEPT !.result = r.result, !.hooked = r.hooked]
    /\ UNCHANGED << framevars, padvars, call, inj >>

\* error!("Couldn't apply hooks: {e:?}")
worker_error ==
    /\ boot.worker = "error"
    /\ boot' = [Worked("error", "eject") EXCEPT !.errors = @ + 1]
    /\ UNCHANGED << framevars, padvars, call, inj >>

\* eject(): the hooks are removed and the DLL unloads.
worker_eject ==
    /\ boot.worker = "eject"
    /\ boot' = [Worked("eject", "done") EXCEPT !.ejects = @ + 1, !.hooked = FALSE]
    /\ UNCHANGED << framevars, padvars, call, inj >>

\* The installed hook calls render on the host's render thread.
hook_render ==
    /\ boot.hooked
    /\ boot.frames < MaxTime
    /\ boot' = [boot EXCEPT !.frames = @ + 1,
                            !.early = @ \/ boot.worker \in {"load_config", "make_commands",
                                                            "fixup"}]
    /\ UNCHANGED << framevars, padvars, call, inj >>

\* ===================================================== hudhook: inject()
\* A Win32 call that can fail returns "null" (or zero), else "ok".
Outcomes == {"null", "ok"}

\* The record after a step: the next step, the fields it assigned, and the
\* step noted as failed and as run on a failed resource where it was.
Stepped(next, step, upd, bad, fails) ==
    [f \in DOMAIN inj |->
        IF f = "pc" THEN next
        ELSE IF f \in DOMAIN upd THEN upd[f]
        ELSE IF f = "failed" /\ fails THEN inj.failed \cup { step }
        ELSE IF f = "misused" /\ bad THEN inj.misused \cup { step }
        ELSE IF f = "done" THEN Append(inj.done, step)
        ELSE inj[f]]

\* Mutation: the remote memory is freed before the thread is waited on.
inject_CreateRemoteThread_then_free ==
    /\ inj.pc = "CreateRemoteThread"
    /\ \E t \in IF inj.hproc = "ok" THEN Outcomes ELSE { "null" } :
         inj' = [Stepped("WaitForSingleObject", "CreateRemoteThread", [thread |-> t],
                         inj.hproc = "null" \/ inj.dllp = "null" \/ inj.proc_addr = "null",
                         t = "null")
                   EXCEPT !.live = (IF t = "ok" THEN @ \cup { "thread" } ELSE @) \ { "dllp" },
                          !.done = Append(Append(inj.done, "CreateRemoteThread"),
                                          "VirtualFreeEx")]
    /\ UNCHANGED << framevars, padvars, call, boot >>

\* FindWindowA, the one call whose result is tested: on NULL the last error is
\* logged and inject returns.
inject_FindWindowA ==
    /\ inj.pc = "FindWindowA"
    /\ \E hwnd \in Outcomes :
         inj' = IF hwnd = "null"
                THEN [inj EXCEPT !.pc = "returned",
                                 !.failed = @ \cup { "FindWindowA" },
                                 !.reported = @ \cup { "FindWindowA" },
                                 !.done = Append(@, "FindWindowA")]
                ELSE [inj EXCEPT !.pc = "GetProcAddress",
                                 !.done = Append(@, "FindWindowA")]
    /\ UNCHANGED << framevars, padvars, call, boot >>

\* GetWindowThreadProcessId, then GetProcAddress(GetModuleHandleA(..), ..).
inject_GetProcAddress ==
    /\ inj.pc = "GetProcAddress"
    /\ \E a \in Outcomes :
         inj' = Stepped("OpenProcess", "GetProcAddress", [proc_addr |-> a], FALSE,
                        a = "null")
    /\ UNCHANGED << framevars, padvars, call, boot >>

inject_OpenProcess ==
    /\ inj.pc = "OpenProcess"
    /\ \E h \in Outcomes :
         inj' = [Stepped("VirtualAllocEx", "OpenProcess", [hproc |-> h], FALSE, h = "null")
                   EXCEPT !.live = IF h = "ok" THEN @ \cup { "hproc" } ELSE @]
    /\ UNCHANGED << framevars, padvars, call, boot >>

inject_VirtualAllocEx ==
    /\ inj.pc = "VirtualAllocEx"
    /\ \E p \in IF inj.hproc = "ok" THEN Outcomes ELSE { "null" } :
         inj' = [Stepped("WriteProcessMemory", "VirtualAllocEx", [dllp |-> p],
                         inj.hproc = "null", p = "null")
                   EXCEPT !.live = IF p = "ok" THEN @ \cup { "dllp" } ELSE @]
    /\ UNCHANGED << framevars, padvars, call, boot >>

\* WriteProcessMemory; its result goes into a debug! line and is not tested.
inject_WriteProcessMemory ==
    /\ inj.pc = "WriteProcessMemory"
    /\ \E r \in IF inj.hproc = "ok" /\ inj.dllp = "ok" THEN Outcomes ELSE { "null" } :
         inj' = Stepped("CreateRemoteThread", "WriteProcessMemory", [res |-> r],
                        inj.hproc = "null" \/ inj.dllp = "null", r = "null")
    /\ UNCHANGED << framevars, padvars, call, boot >>

\* CreateRemoteThread(hproc, .., transmute(proc_addr), dllp, ..).  With a null
\* proc_addr the transmute to a function pointer is undefined: either outcome.
inject_CreateRemoteThread ==
    /\ inj.pc = "CreateRemoteThread"
    /\ \E t \in IF inj.hproc = "ok" THEN Outcomes ELSE { "null" } :
         inj' = [Stepped("WaitForSingleObject", "CreateRemoteThread", [thread |-> t],
                         inj.hproc = "null" \/ inj.dllp = "null" \/ inj.proc_addr = "null",
                         t = "null")
                   EXCEPT !.live = IF t = "ok" THEN @ \cup { "thread" } ELSE @]
    /\ UNCHANGED << framevars, padvars, call, boot >>

inject_WaitForSingleObject ==
    /\ inj.pc = "WaitForSingleObject"
    /\ inj' = Stepped("GetExitCodeThread", "WaitForSingleObject", << >>,
                      inj.thread = "null", inj.thread = "null")
    /\ UNCHANGED << framevars, padvars, call, boot >>

\* GetExitCodeThread: LoadLibraryW's result in the remote thread, or ec as it
\* was initialised.
inject_GetExitCodeThread ==
    /\ inj.pc = "GetExitCodeThread"
    /\ \E c \in IF inj.thread = "ok" THEN Outcomes ELSE { "null" } :
         inj' = Stepped("CloseHandle_thread", "GetExitCodeThread", [ec |-> c],
                        inj.thread = "null", inj.thread = "null")
    /\ UNCHANGED << framevars, padvars, call, boot >>

inject_CloseHandle_thread ==
    /\ inj.pc = "CloseHandle_thread"
    /\ inj' = [Stepped("VirtualFreeEx", "CloseHandle_thread", << >>,
                       inj.thread = "null", inj.thread = "null")
                 EXCEPT !.live = @ \ { "thread" }]
    /\ UNCHANGED << framevars, padvars, call, boot >>

inject_VirtualFreeEx ==
    /\ inj.pc = "VirtualFreeEx"
    /\ inj' = [Stepped("CloseHandle_hproc", "VirtualFreeEx", << >>,
                       inj.hproc = "null" \/ inj.dllp = "null",
                       inj.hproc = "null" \/ inj.dllp = "null")
                 EXCEPT !.live = @ \ { "dllp" }]
    /\ UNCHANGED << framevars, padvars, call, boot >>

inject_CloseHandle_hproc ==
    /\ inj.pc = "CloseHandle_hproc"
    /\ inj' = [Stepped("returned", "CloseHandle_hproc", << >>,
                       inj.hproc = "null", inj.hproc = "null")
                 EXCEPT !.live = @ \ { "hproc" }]
    /\ UNCHANGED << framevars, padvars, call, boot >>

\* ------------------------------------------------- inject(): the DLL path
\* The wide string of a path of len characters: len u16 and the terminator.
WideCString_bytes(len) == (len + 1) * 2

\* VirtualAllocEx(.., MAX_PATH * size_of::<u16>(), ..) and WriteProcessMemory(
\* hproc, dllp, dll_path.as_ptr(), MAX_PATH * size_of::<u16>(), ..): the size of
\* the remote allocation, of the local buffer, the bytes the call is asked to
\* read from the one and write to the other, and whether the terminator is
\* among them.
write_dll_path(len) ==
    [allocated  |-> MAX_PATH * 2,
     buffer     |-> WideCString_bytes(len),
     read       |-> MAX_PATH * 2,
     written    |-> MAX_PATH * 2,
     terminated |-> WideCString_bytes(len) <= MAX_PATH * 2]

\* Lengths of the canonical path, to beyond MAX_PATH.
PathLens == 1..(MAX_PATH + 40)

\* The path is copied into the host.  Reading past the local buffer is
\* undefined: the call copies what lies behind the buffer or fails.
call_write_dll_path ==
    /\ call = NoCall
    /\ \E len \in PathLens :
         LET w == write_dll_path(len)
         IN  \E res \in IF w.read > w.buffer THEN Outcomes ELSE { "ok" } :
                call' = [fn |-> "write_dll_path", len |-> len, res |-> res, ret |-> w]
    /\ UNCHANGED << framevars, padvars, inj, boot >>

\* ================================================================== the runs
\* PracticeTool::new: the widgets the config file lists, in its order.
Widget_new(kind) == IF kind = "stats" THEN CharacterStatsEdit_new ELSE ItemSpawner_new

\* A run at the keyboard and mouse: mode switches, buttons, the stats editor.
UiEnv == [keys |-> {"display", "rshift", "hide", "open", "load"}, mouse |-> TRUE,
          clock |-> FALSE, edits |-> { << "vigor", 100 >> }, pad |-> FALSE,
          radial |-> << >>, snapshots |-> { HostStats }, picks |-> { },
          live |-> { TRUE }]
UiConfigs == { << >>, << "stats" >>, << "stats", "spawner" >> }

\* A run of the item spawner's hotkey against the clock.
LogEnv == [keys |-> {"load", "display"}, mouse |-> FALSE, clock |-> TRUE,
           edits |-> { }, pad |-> FALSE, radial |-> << >>,
           snapshots |-> { HostStats }, picks |-> { }, live |-> BOOLEAN]
LogConfigs == { << >>, << "spawner" >>, << "spawner", "spawner", "spawner", "spawner" >> }

\* PracticeTool::new leaves ui_state Closed, the log empty and (practice_tool.rs)
\* is_hidden false; the game's cursor flag is whatever the game left there.
new(e, configs) ==
    /\ build \in {"lib", "pt"}
    /\ env = e
    /\ widgets \in configs
    /\ ui_state = "Closed"
    /\ is_hidden = FALSE
    /\ cursor_show \in BOOLEAN
    /\ popup = "none"
    /\ ws = [i \in 1..Len(widgets) |-> Widget_new(widgets[i])]
    /\ game \in { [stats |-> s, in_game |-> b, spawns |-> 0] :
                    s \in e.snapshots, b \in e.live }
    /\ active_id = "none"
    /\ log = << >>
    /\ now = 0
    /\ next_id = 0
    /\ pc = "idle"
    /\ io = NoIo
    /\ ui_state0 = "Closed"
    /\ branch = "none"
    /\ trace = << >>
    /\ fresh = { }
    /\ late = { }
    /\ overdue = { }
    /\ arrived = << >>
    /\ drawn = << >>
    /\ block_ret = None
    /\ ejected = FALSE
    /\ press_queue = << >>
    /\ release_queue = << >>
    /\ gamepad_state = NoPad
    /\ gamepad_stick = 0
    /\ BLOCK_XINPUT = FALSE
    /\ flushed = FALSE
    /\ emitted = << >>
    /\ emitted_prev = << >>
    /\ pad0 = NoPad
    /\ committed = << >>
    /\ aimed = FALSE
    /\ call = NoCall
    /\ inj = NoInj
    /\ boot = NoBoot

Init == new(UiEnv, UiConfigs)

Next ==
    \/ lib_render_hotkey
    \/ lib_render_visible_interact
    \/ lib_render_visible
    \/ lib_render_closed
    \/ lib_render_hidden
    \/ lib_render_drain
    \/ lib_render_logs
    \/ lib_wnd_proc
    \/ pt_before_render
    \/ pt_render_hotkey
    \/ pt_render_visible_interact
    \/ pt_render_visible
    \/ pt_render_closed
    \/ pt_render_hidden
    \/ pt_render_drain
    \/ pt_render_logs

Spec == Init /\ [][Next]_vars

\* A run at the controller: the radial menu sends the display chord or a
\* two-key chord.
PadEnv == [keys |-> {"display"}, mouse |-> FALSE, clock |-> FALSE, edits |-> { },
           pad |-> TRUE, radial |-> << << "display" >>, << "lctrl", "f1" >> >>,
           snapshots |-> { HostStats }, picks |-> { }, live |-> { TRUE }]

PadInit == new(PadEnv, { << >> }) /\ build = "pt"

PadNext ==
    \/ pt_before_render
    \/ pt_render_hotkey
    \/ pt_render_visible_interact
    \/ pt_render_visible
    \/ pt_render_closed
    \/ pt_render_drain
    \/ pt_render_logs

PadSpec == PadInit /\ [][PadNext]_vars

\* The frames of either build with the keyboard and mouse but no clock.
FrameNext ==
    \/ lib_render_hotkey
    \/ lib_render_visible_interact
    \/ lib_render_visible
    \/ lib_render_closed
    \/ lib_render_drain
    \/ lib_render_logs
    \/ pt_before_render
    \/ pt_render_hotkey
    \/ pt_render_visible_interact
    \/ pt_render_visible
    \/ pt_render_closed
    \/ pt_render_drain
    \/ pt_render_logs

\* A CharacterStats struct of the host with fields outside the editor's ranges.
WildStats == [HostStats EXCEPT !.level = 0, !.vigor = 120, !.luck = 0, !.souls = -5]

\* A run of the stats editor: the host's struct is as the game keeps it or out
\* of range, the user enters values at, below and above the clamps.
StatsEnv == [keys |-> {"display", "open"}, mouse |-> TRUE, clock |-> FALSE,
             edits |-> { << "vigor", 0 >>, << "vigor", 100 >>, << "level", 0 >>,
                         << "souls", -1 >>, << "souls", 7 >> },
             pad |-> FALSE, radial |-> << >>,
             snapshots |-> { HostStats, WildStats }, picks |-> { },
             live |-> { TRUE }]

StatsInit == new(StatsEnv, { << "stats" >> })

StatsSpec == StatsInit /\ [][FrameNext]_vars

\* A run of the item spawner in and out of a live game: the user changes the
\* selection, spawns by button and hotkey, and resets.
SpawnEnv == [keys |-> {"display", "load"}, mouse |-> TRUE, clock |-> FALSE,
             edits |-> { }, pad |-> FALSE, radial |-> << >>,
             snapshots |-> { HostStats },
             picks |-> { << "qty", 99 >>, << "upgrade", 3 >>, << "item_id", 1073741825 >> },
             live |-> BOOLEAN]

SpawnInit == new(SpawnEnv, { << "spawner" >> })

SpawnSpec == SpawnInit /\ [][FrameNext]_vars

\* The item spawner with its combos at their last entries and its sliders
\* dragged to an end or, after Ctrl+click, typed into: slider_config(..).build()
\* is given no AlwaysClamp flag, and a typed value is then stored as typed.
SliderEnv == [keys |-> {"display", "load"}, mouse |-> TRUE, clock |-> FALSE,
              edits |-> { }, pad |-> FALSE, radial |-> << >>,
              snapshots |-> { HostStats },
              picks |-> { << "qty", 99 >>, << "qty", 1000 >>, << "durability", 10000 >>,
                          << "upgrade", 10 >>, << "infusion_type", 15 >> },
              live |-> { TRUE }]

SliderInit == new(SliderEnv, { << "spawner" >> })

SliderSpec == SliderInit /\ [][FrameNext]_vars

\* Calls of the item filter on every pair of texts.
MatchInit == new(UiEnv, { << >> }) /\ build = "lib" /\ cursor_show = FALSE

MatchSpec == MatchInit /\ [][call_string_match]_vars

\* The in-game time line of either build for each reading.
IgtInit == new(UiEnv, { << >> }) /\ cursor_show = FALSE

IgtSpec == IgtInit /\ [][call_igt_text]_vars

\* Config::parse on every document.
ParseInit == new(UiEnv, { << >> }) /\ build = "lib" /\ cursor_show = FALSE

ParseSpec == ParseInit /\ [][call_Config_parse]_vars

\* new() with every outcome of finding, reading and parsing the file.
NewInit == new(UiEnv, { << >> }) /\ build = "lib" /\ cursor_show = FALSE

NewSpec == NewInit /\ [][call_new]_vars

\* One call of inject().
InjectInit == new(UiEnv, { << >> }) /\ build = "lib" /\ cursor_show = FALSE

InjectNext ==
    \/ inject_FindWindowA
    \/ inject_GetProcAddress
    \/ inject_OpenProcess
    \/ inject_VirtualAllocEx
    \/ inject_WriteProcessMemory
    \/ inject_CreateRemoteThread
    \/ inject_WaitForSingleObject
    \/ inject_GetExitCodeThread
    \/ inject_CloseHandle_thread
    \/ inject_VirtualFreeEx
    \/ inject_CloseHandle_hproc

InjectSpec == InjectInit /\ [][InjectNext]_vars

\* The request for every selection.
RequestInit == new(UiEnv, { << >> }) /\ build = "lib" /\ cursor_show = FALSE

RequestSpec == RequestInit /\ [][call_spawn]_vars

\* ItemIDNode::filter on every entry and filter text.
FilterInit == new(UiEnv, { << >> }) /\ build = "lib" /\ cursor_show = FALSE

FilterSpec == FilterInit /\ [][call_filter]_vars

\* Config::make_commands on every configuration that parses.
MakeInit == new(UiEnv, { << >> }) /\ build = "lib" /\ cursor_show = FALSE

MakeSpec == MakeInit /\ [][call_make_commands]_vars

\* The DLL from its mapping into the host to the frames of the installed hook.
BootInit == new(UiEnv, { << >> }) /\ build = "lib" /\ cursor_show = FALSE

BootNext ==
    \/ DllMain
    \/ worker_load_config
    \/ worker_make_commands
    \/ worker_fixup
    \/ worker_apply
    \/ worker_error
    \/ worker_eject
    \/ hook_render

BootSpec == BootInit /\ [][BootNext]_vars

\* The copy of the DLL path for every length of the path.
PathInit == new(UiEnv, { << >> }) /\ build = "lib" /\ cursor_show = FALSE

PathSpec == PathInit /\ [][call_write_dll_path]_vars

LogInit == new(LogEnv, LogConfigs)

\* With neither the hide chord, right shift nor the mouse, these runs never
\* enter Hidden; the hook's window procedure is left to Spec.

LogNext ==
    \/ Tick
    \/ lib_render_hotkey
    \/ lib_render_visible_interact
    \/ lib_render_visible
    \/ lib_render_closed
    \/ lib_render_drain
    \/ lib_render_logs
    \/ pt_before_render
    \/ pt_render_hotkey
    \/ pt_render_visible_interact
    \/ pt_render_visible
    \/ pt_render_closed
    \/ pt_render_drain
    \/ pt_render_logs

LogSpec == LogInit /\ [][LogNext]_vars


\* ==================================================================== claims
\* The display chord alone completed on the frame just sampled (io), with the
\* keyboard not captured: no right shift (lib.rs), no hide chord (practice_tool.rs).
PlainDisplay(k, active) ==
    /\ ~k.wck
    /\ keyup("display", k.keys, active)
    /\ "rshift" \notin k.keys
    /\ "hide" \notin k.keys

\* The table of spec section 4.6: <<mode, right shift down, next mode>>.
C1_table ==
    { << "Hidden",   TRUE,  "Closed"   >>,
      << "Hidden",   FALSE, "Closed"   >>,
      << "MenuOpen", TRUE,  "Hidden"   >>,
      << "Closed",   TRUE,  "Hidden"   >>,
      << "MenuOpen", FALSE, "Closed"   >>,
      << "Closed",   FALSE, "MenuOpen" >> }

\* C1: in lib.rs, on a frame where the display hotkey goes up and the keyboard
\* is not captured, the table has exactly one row for the mode the frame began
\* in and the state of right shift, and the mode after the hotkey handler is
\* that row's next mode.
C1_TransitionTable ==
    (build = "lib" /\ pc = "dispatch" /\ lib_hotkey_fires(io, active_id)) =>
        /\ Cardinality({ r \in C1_table :
                           r[1] = ui_state0 /\ r[2] = ("rshift" \in io.keys) }) = 1
        /\ << ui_state0, "rshift" \in io.keys, ui_state >> \in C1_table

\* C1 witness: the handler has just taken Closed to Hidden with right shift down.
C1_Witness ==
    /\ build = "lib" /\ pc = "dispatch" /\ lib_hotkey_fires(io, active_id)
    /\ "rshift" \in io.keys /\ ui_state0 = "Closed" /\ ui_state = "Hidden"

C4_CapturedKeyboard ==
    [][ ( pc = "idle" /\ pc' = "dispatch" /\ io'.wck ) =>
          ( ui_state' = ui_state /\ cursor_show' = cursor_show ) ]_vars

\* C4 witness: the display chord completed on a captured frame with no item
\* active, in MenuOpen with the cursor shown.
C4_Witness ==
    /\ pc = "dispatch" /\ io.wck /\ keyup("display", io.keys, active_id)
    /\ ~ModalUp(ws) /\ popup = "none"
    /\ ui_state = "MenuOpen" /\ cursor_show

\* C5 as stated: at the end of a frame that changed the mode, the cursor flag
\* is true if the mode is now MenuOpen and false if it is now Closed or Hidden.
C5_CursorSetOnEntry ==
    (pc = "drain" /\ ui_state # ui_state0) => (cursor_show = (ui_state = "MenuOpen"))

\* C5 amended: a frame that render dispatched to MenuOpen (which the frame of
\* entry by hotkey is, and the frame after an entry by the Open button) and
\* that ends in MenuOpen ends with the flag true; the Open button itself does
\* not write the flag; a frame that ends in Closed or Hidden after starting in
\* another mode ends with the flag false, unless the closed bar's Help or
\* Indicators modal was opened in it.
C5_CursorFollowsMode ==
    pc = "drain" =>
        /\ (ui_state = "MenuOpen" /\ branch = "visible") => cursor_show
        /\ (ui_state \in {"Closed", "Hidden"} /\ ui_state # ui_state0) =>
               (~cursor_show \/ popup # "none")

\* C5 witness: the hotkey left MenuOpen for Closed and the flag is down.
C5_Witness ==
    /\ pc = "drain" /\ ui_state0 = "MenuOpen" /\ ui_state = "Closed"
    /\ branch = "closed" /\ popup = "none" /\ ~cursor_show

\* C6: whenever the hook asks, should_block_messages answers true exactly when
\* the mode is MenuOpen.
C6_BlockIffMenuOpen ==
    block_ret # None => (block_ret[1] <=> ui_state = "MenuOpen")

\* C6 witness: the hook was told not to block in Hidden.
C6_Witness == block_ret = Some(FALSE) /\ ui_state = "Hidden"


\* Every entry of lg arrived less than LogTTL seconds before t.
AllYoung(lg, t) == \A j \in 1..Len(lg) : t - lg[j].tm < LogTTL

\* C7: once render has drained and evicted (render_logs, its last step, leaves
\* the log alone), every entry of the frame log arrived less than 5 seconds
\* ago, and the log holds every such arrival, however many there are.
C7_LogYoungAndUncapped ==
    pc = "logs" =>
        /\ AllYoung(log, now)
        /\ log = SelectSeq(arrived, LAMBDA e : now - e.tm < LogTTL)

\* C7 witness: a frame evicted some entries and kept more than render_logs of
\* practice_tool.rs draws.
C7_Witness ==
    pc = "logs" /\ Len(arrived) > Len(log) /\ Len(log) > LogShown

C9_InteractBeforeRender ==
    (pc = "drain" /\ branch \in {"visible", "closed"}) =>
        \A a, b \in 1..Len(trace) :
            a < b =>
                /\ ~(trace[a][1] # "interact" /\ trace[b][1] = "interact")
                /\ (trace[a][1] = trace[b][1] => trace[a][2] < trace[b][2])

Keys(ev, down) ==
    LET RECURSIVE pick(_)
        pick(j) == IF j > Len(ev) THEN << >>
                   ELSE (IF ev[j][2] = down THEN << ev[j][1] >> ELSE << >>) \o pick(j + 1)
    IN  pick(1)

\* C11: the keys before_render sends up in a frame are exactly the keys it
\* sent down in the frame before, each once and before any key it sends down
\* in this frame; after before_render the release queue holds the keys sent
\* down in this frame and the press queue is empty.
C11_ReleaseNextFrame ==
    /\ Keys(emitted, FALSE) = Keys(emitted_prev, TRUE)
    /\ \A i, j \in 1..Len(emitted) : (~emitted[i][2] /\ emitted[j][2]) => i < j
    /\ flushed => /\ release_queue = Keys(emitted, TRUE)
                  /\ press_queue = << >>

\* A frame in which before_render releases the two keys of a chord.
C11_Witness ==
    /\ flushed
    /\ Keys(emitted, FALSE) = << "lctrl", "f1" >>
    /\ Keys(emitted_prev, TRUE) = << "lctrl", "f1" >>

\* ---------------------------------------------------------------- C12
\* C12: render_radial appends one entry's keys to the press queue on the frame
\* whose sample has A released while the sample before had A held, both
\* shoulder buttons are held and the stick was moved into a sector while they
\* were held; on every other frame it appends nothing.
C12_CommitOncePerCycle ==
    committed =
        IF /\ gamepad_state.lb /\ gamepad_state.rb
           /\ aimed
           /\ pad0.a /\ ~gamepad_state.a
        THEN env.radial[radial_menu(env.radial, gamepad_stick)[1]]
        ELSE << >>

\* ---------------------------------------------------------------- C20
\* C20: after render_radial BLOCK_XINPUT is set exactly when the frame's
\* sample has both shoulder buttons held.
C20_BlockIffBothShoulders ==
    BLOCK_XINPUT <=> (gamepad_state.lb /\ gamepad_state.rb)

\* The flag is cleared on the first frame one shoulder button is let go.
C20_Witness ==
    /\ pc = "dispatch"
    /\ pad0.lb /\ pad0.rb
    /\ gamepad_state.lb /\ ~gamepad_state.rb
    /\ ~BLOCK_XINPUT

\* ---------------------------------------------------------------- C13
\* The range the editor keeps an edited field in.
InRange(f, v) ==
    IF f = "level" THEN 1 <= v /\ v <= I32Max
    ELSE IF f = "souls" THEN 0 <= v /\ v <= I32Max
    ELSE 1 <= v /\ v <= 99

\* C13 as stated: every CharacterStats the editor writes to the host has every
\* field in its range, whatever was read on open and whatever was edited.
C13_WrittenInRange ==
    [][game'.stats # game.stats => \A f \in StatFields : InRange(f, game'.stats[f])]_vars

\* C13, amended: in every CharacterStats the editor writes, a field is in its
\* range or is written back as the host held it.
C13_WrittenInRangeOrAsRead ==
    [][game'.stats # game.stats =>
          \A f \in StatFields : \/ InRange(f, game'.stats[f])
                                \/ game'.stats[f] = game.stats[f]]_vars

\* Apply has written a struct with two clamped edits and a field left as read.
C13_Witness ==
    /\ game.stats.vigor = 99
    /\ game.stats.level = 1
    /\ game.stats.luck = 0

\* ---------------------------------------------------------------- C14
\* C14: out of a live game spawn makes no call of the game's spawn function,
\* logs one message and leaves the selection as it is; in a live game it calls
\* the function once and logs one message.  Over a run the function has been
\* called once per message in a live game and never out of one.
C14_SpawnGuarded ==
    /\ \A i \in 1..Len(ws) :
         ws[i].kind = "spawner" =>
           LET r == ItemSpawner_spawn(i, St)
           IN  /\ Len(Lines(r.ws[i].log)) = Len(Lines(ws[i].log)) + 1
               /\ r.next_id = next_id + 1
               /\ r.ws[i].sel = ws[i].sel
               /\ r.game.spawns = game.spawns + (IF game.in_game THEN 1 ELSE 0)
    /\ game.spawns = IF game.in_game THEN next_id ELSE 0

\* Out of a live game, spawn has logged its message for a changed selection.
C14_Witness ==
    /\ ~game.in_game
    /\ \E i \in 1..Len(ws) :
         /\ ws[i].kind = "spawner"
         /\ ws[i].sel.qty = 99
         /\ ws[i].log # None
         /\ ws[i].log[1][1].text = "not_in_game"

\* ---------------------------------------------------------------- C15
\* The characters of h at the positions ps, in order.
Pick(h, ps) ==
    LET RECURSIVE from(_)
        from(j) == IF j > Len(h) THEN << >>
                   ELSE (IF j \in ps THEN << h[j] >> ELSE << >>) \o from(j + 1)
    IN  from(1)

\* n is h with some of its characters left out.
IsSubsequence(n, h) == \E ps \in SUBSET (1..Len(h)) : Pick(h, ps) = n

\* C15: string_match is true exactly when the lower-cased needle is a
\* subsequence of the lower-cased haystack; the empty needle matches every
\* haystack, and a needle with more copies of a character than the haystack
\* has does not match.
C15_SubsequenceMatch ==
    call.fn = "string_match" =>
        /\ call.ret <=> IsSubsequence(lowered(call.needle), lowered(call.haystack))
        /\ call.needle = << >> => call.ret
        /\ (\E c \in {"a", "b", "i", "dot"} :
               Cardinality({j \in 1..Len(lowered(call.needle)) : lowered(call.needle)[j] = c})
                 > Cardinality({j \in 1..Len(lowered(call.haystack)) :
                                  lowered(call.haystack)[j] = c}))
             => ~call.ret

\* A mixed-case needle matched with a gap, and a doubled letter refused.
C15_Witness ==
    /\ call.fn = "string_match"
    /\ call.needle = << "A", "b" >>
    /\ call.haystack = << "a", "I_dot", "B" >>
    /\ call.ret
    /\ ~string_match(<< "a", "a" >>, << "A", "b" >>)

\* ---------------------------------------------------------------- C16
\* The number a sequence of decimal digits writes.
RECURSIVE Value(_)
Value(s) ==
    LET v(c) == CHOOSE n \in 0..9 :
                  << "0", "1", "2", "3", "4", "5", "6", "7", "8", "9" >>[n + 1] = c
    IN  IF s = << >> THEN 0 ELSE 10 * Value(SubSeq(s, 1, Len(s) - 1)) + v(s[Len(s)])

\* A number written with at least two digits and no more zeros than that needs.
Padded(s, n) ==
    /\ Len(s) >= 2
    /\ \A j \in 1..Len(s) : s[j] \in {"0", "1", "2", "3", "4", "5", "6", "7", "8", "9"}
    /\ Len(s) > 2 => s[1] # "0"
    /\ Value(s) = n

\* text is label, then HH:MM:SS.cc for igt milliseconds.
IgtLine(text, label, igt) ==
    LET n  == Len(text)
        k  == Len(label)
        HH == igt \div 3600000
        MM == (igt \div 60000) % 60
        SS == (igt \div 1000) % 60
        cc == (igt % 1000) \div 10
    IN  /\ n >= k + 11
        /\ SubSeq(text, 1, k) = label
        /\ Padded(SubSeq(text, k + 1, n - 9), HH)
        /\ text[n - 8] = ":" /\ Padded(SubSeq(text, n - 7, n - 6), MM)
        /\ text[n - 5] = ":" /\ Padded(SubSeq(text, n - 4, n - 3), SS)
        /\ text[n - 2] = "." /\ Padded(SubSeq(text, n - 1, n), cc)
        /\ HH * 3600000 + MM * 60000 + SS * 1000 + cc * 10 <= igt
        /\ igt < HH * 3600000 + MM * 60000 + SS * 1000 + cc * 10 + 10

\* C16 as stated: the in-game time line is "IGT HH:MM:SS.cc".
C16_IgtText ==
    call.fn = "igt_text" => IgtLine(call.ret, << "I", "G", "T", " " >>, call.igt)

\* C16, amended: the line is HH:MM:SS.cc after "IGT " in practice_tool.rs and
\* after the label of lib.rs in lib.rs.
C16_IgtTextPerBuild ==
    call.fn = "igt_text" =>
        IgtLine(call.ret,
                IF build = "pt" THEN << "I", "G", "T", " " >>
                ELSE << "U+6E38", "U+620F", "U+5185", "U+65F6", "U+95F4", " " >>,
                call.igt)

\* The reading 3725123 is written "IGT 01:02:05.12" by practice_tool.rs.
C16_Witness ==
    /\ build = "pt"
    /\ call.fn = "igt_text"
    /\ call.igt = 3725123
    /\ call.ret = << "I", "G", "T", " ", "0", "1", ":", "0", "2", ":", "0", "5", ".",
                     "1", "2" >>

\* ---------------------------------------------------------------- C17
\* The events of a log that carry the text m.
Carrying(logged, m) == { j \in 1..Len(logged) : logged[j].text = m }

\* C17: when the configuration file is not found, not read or not parsed,
\* new() goes on with the default configuration (log level DEBUG, display
\* hotkey "0", no console, no commands, hence no widgets) and the error is
\* logged exactly once.
C17_FallbackToDefault ==
    (/\ call.fn = "new"
     /\ \/ call.path = None
        \/ ~call.file.ok
        \/ Config_errors(call.file.val) # { })
    => /\ ~call.loaded.ok
       /\ call.ret.config.settings.log_level = "DEBUG"
       /\ call.ret.config.settings.display = "0"
       /\ call.ret.config.settings.show_console = FALSE
       /\ call.ret.config.commands = << >>
       /\ call.ret.widgets = << >>
       /\ Cardinality(Carrying(call.ret.logged, call.loaded.err)) = 1

\* A file with an entry of no variant was read, and new() fell back.
C17_Witness ==
    /\ call.fn = "new"
    /\ call.path # None /\ call.file.ok
    /\ call.file.val = [settings |-> [log_level |-> TStr("INFO"), display |-> TStr("f1"),
                                      show_console |-> TBool(TRUE)],
                        commands |-> TList(<< [boh |-> TInt("3")] >>)]
    /\ call.log_file = "create_failed"
    /\ call.ret.config = Config_default
    /\ Len(call.ret.logged) = 3

\* ---------------------------------------------------------------- C18
\* A flag value of the entry, or of an entry of the group it is, that is not a
\* name of the catalogue.
RECURSIVE BadFlags(_)
BadFlags(e) ==
    (IF Has(e, "flag") /\ e.flag.t = "str" /\ e.flag.v \notin FlagNames
     THEN { e.flag.v } ELSE { })
    \cup
    (IF Has(e, "commands") /\ e.commands.t = "list"
     THEN UNION { BadFlags(e.commands.v[j]) : j \in 1..Len(e.commands.v) } ELSE { })

\* Bad flag values anywhere in the commands of a document.
DocBadFlags(doc) ==
    IF Has(doc, "commands")
    THEN UNION { BadFlags(doc.commands.v[j]) : j \in 1..Len(doc.commands.v) } ELSE { }

\* Config::parse returned an error for a document with a command entry of no
\* variant, a flag value outside the catalogue or a required settings key
\* missing.
ParseRejects ==
    call.fn = "Config::parse" =>
        LET doc == call.doc
        IN  ( \/ ~Has(doc, "settings")
              \/ Has(doc, "settings") /\ ~Has(doc.settings, "log_level")
              \/ Has(doc, "settings") /\ ~Has(doc.settings, "display")
              \/ DocBadFlags(doc) # { }
              \/ Has(doc, "commands") /\ \E j \in 1..Len(doc.commands.v) :
                     CfgCommand_deserialize(doc.commands.v[j]) = None )
            => ~call.ret.ok

\* When the one fault of a document is a flag value outside the catalogue, the
\* error Config::parse returned contains that value.
BadFlagNamed ==
    call.fn = "Config::parse" =>
        LET doc == call.doc
        IN  ( /\ Has(doc, "settings")
              /\ Config_errors([settings |-> doc.settings, commands |-> TList(<< >>)]) = { }
              /\ Has(doc, "commands") /\ Len(doc.commands.v) = 1
              /\ DocBadFlags(doc) # { } )
            => /\ ~call.ret.ok
               /\ \A v \in DocBadFlags(doc) :
                     \E j \in 1..Len(call.ret.err) : call.ret.err[j] = v

\* C18: Config::parse returns an error when a command entry matches no
\* variant, when a flag value is not one of the catalogue's names, or when a
\* required settings key is missing; for a bad flag value the error names the
\* value.
C18_ParseErrors == ParseRejects /\ BadFlagNamed

\* ---------------------------------------------------------------- C19
\* C19: in inject a failing step is reported with the last-error code, no
\* later step runs on the failed resource, and at return the remote memory is
\* freed and the handles are closed.
C19_FailuresHandled ==
    /\ inj.misused = { }
    /\ inj.pc = "returned" =>
         /\ inj.failed \cap {"FindWindowA", "OpenProcess", "VirtualAllocEx",
                            "WriteProcessMemory", "CreateRemoteThread"}
              \subseteq inj.reported
         /\ inj.live = { }

\* ---------------------------------------------------------------- C21
\* C21: while the stats editor's modal stays open its edit buffer changes only
\* by the user's field edits and their clamps; it is never replaced by a fresh
\* read of the host's struct.
C21_SnapshotOnlyOnOpen ==
    [][\A i \in 1..Len(ws) :
          (ws[i].kind = "stats" /\ ws[i].stats # None /\ ws'[i].stats # None) =>
             \A f \in StatFields :
                \/ ws'[i].stats[1][f] = ws[i].stats[1][f]
                \/ \E ed \in env.edits :
                      ed[1] = f /\ ws'[i].stats[1][f] = ClampField(f, ed[2])]_vars

\* ---------------------------------------------------------------- C22
\* The request is made and carries unknown = 1, the selection's quantity and
\* durability, and base id + infusion + upgrade in full.
ExactRequest ==
    LET sel == call.sel
        inf == 100 * sel.infusion_type
        upg == sel.upgrade
        lo  == sel.item_id[2] + inf + upg
        hi  == sel.item_id[1] + (lo \div 65536)
    IN  /\ call.ret.kind = "called"
        /\ call.ret.request.unknown = 1
        /\ call.ret.request.qty = sel.qty
        /\ call.ret.request.durability = sel.durability
        /\ hi < 65536
        /\ call.ret.request.item_id = << hi, lo % 65536 >>
        /\ inf \in { 100 * k : k \in 0..15 }
        /\ upg \in 0..10

\* C22 as stated: for every base id a catalogue entry can hold the request has
\* unknown = 1, the spawner's qty and durability, and item_id = base id +
\* infusion + upgrade without overflow.
C22_Request ==
    call.fn = "spawn" => ExactRequest

\* C22, amended: the same for every base id of at most 2^32 - 1 - 1510.
C22_RequestBelowTop ==
    (call.fn = "spawn" /\ (call.sel.item_id[1] < 65535 \/ call.sel.item_id[2] <= 64025))
       => ExactRequest

\* The item 0x40000B67 was requested with the last infusion at +10.
C22_Witness ==
    /\ call.fn = "spawn"
    /\ call.sel.item_id = << 16384, 2919 >>
    /\ call.sel.infusion_type = 15 /\ call.sel.upgrade = 10
    /\ call.ret.kind = "called"
    /\ call.ret.request.item_id = << 16384, 4429 >>

\* ---------------------------------------------------------------- C23
\* The leaves below a catalogue entry or a filtered entry, in order, as
\* << name, id >> pairs.
RECURSIVE LeafSeq(_)
RECURSIVE LeafSeqOfAll(_)
LeafSeq(n) ==
    IF n.tag = "Leaf" THEN << << n.desc, n.id >> >>
    ELSE IF n.tag = "RefLeaf" THEN << << n.node, n.value >> >>
    ELSE LeafSeqOfAll(n.children)
LeafSeqOfAll(ns) == IF ns = << >> THEN << >> ELSE LeafSeq(Head(ns)) \o LeafSeqOfAll(Tail(ns))

\* r is n with some children left out at each level: names, ids and the order
\* of the children that stay are n's.
RECURSIVE IsPruned(_, _)
RECURSIVE IsPrunedAll(_, _)
IsPruned(n, r) ==
    IF n.tag = "Leaf" THEN r = RefLeaf(n.desc, n.id)
    ELSE r.tag = "RefNode" /\ r.node = n.node /\ IsPrunedAll(n.children, r.children)
IsPrunedAll(ns, rs) ==
    IF rs = << >> THEN TRUE
    ELSE IF ns = << >> THEN FALSE
    ELSE \/ IsPruned(Head(ns), Head(rs)) /\ IsPrunedAll(Tail(ns), Tail(rs))
         \/ IsPrunedAll(Tail(ns), rs)

\* No group of r is empty.
RECURSIVE NoEmptyGroup(_)
NoEmptyGroup(r) ==
    r.tag = "RefNode" =>
       (r.children # << >> /\ \A k \in 1..Len(r.children) : NoEmptyGroup(r.children[k]))

Matching(filter, leaves) ==
    LET Hit(l) == string_match(filter, l[1]) IN SelectSeq(leaves, Hit)

\* C23: with a non-empty filter, filter keeps exactly the leaves whose
\* description matches, keeps a group exactly when a leaf below it is kept
\* (whatever the group's name), and keeps the order of what stays; with an empty
\* filter it returns the whole entry.
C23_FilterKeepsMatches ==
    call.fn = "filter" =>
       IF call.filter = << >>
       THEN call.ret = Some(ItemIDNodeRef_from(call.n))
       ELSE LET hits == Matching(call.filter, LeafSeq(call.n))
            IN  /\ (call.ret = None) <=> (hits = << >>)
                /\ call.ret # None =>
                      /\ LeafSeq(call.ret[1]) = hits
                      /\ IsPruned(call.n, call.ret[1])
                      /\ NoEmptyGroup(call.ret[1])

\* Weapons[Longsword, Broadsword] filtered by "bro" gave Weapons[Broadsword].
C23_Witness ==
    /\ call.fn = "filter"
    /\ call.n = Weapons
    /\ call.filter = << "b", "r", "o" >>
    /\ call.ret =
          Some(RefNode(Weapons.node,
                       << RefLeaf(<< "B", "r", "o", "a", "d", "s", "w", "o", "r", "d" >>, 5) >>))

\* ---------------------------------------------------------------- C24
\* The widget kind Config::make_commands_inner constructs for each variant.
WidgetOf(variant) ==
    IF variant = "Position" THEN "SavePosition"
    ELSE IF variant = "CharacterStats" THEN "CharacterStatsEdit"
    ELSE variant

\* ws are the widgets of the entries es: one per entry, in the entries' order,
\* a group's children being the widgets of the group's entries.
RECURSIVE OnePerCommand(_, _)
OnePerCommand(es, ws_) ==
    /\ Len(ws_) = Len(es)
    /\ \A j \in 1..Len(es) :
          /\ ws_[j].widget = WidgetOf(CfgCommand_deserialize(es[j])[1])
          /\ ws_[j].widget = "Group" =>
                (ws_[j].label = es[j].group.v /\ OnePerCommand(es[j].commands.v, ws_[j].children))
          /\ ws_[j].widget = "Flag" =>
                (ws_[j].flag = es[j].flag.v /\ ws_[j].hotkey = OptKey(es[j], "hotkey"))

\* C24: make_commands produces exactly one widget per configured command, in
\* the order of the configuration, a group giving one Group widget whose
\* children are made the same way; a flag command gives a Flag widget of that
\* flag and hotkey.
C24_OneWidgetPerCommand ==
    call.fn = "make_commands" => OnePerCommand(call.doc.commands.v, call.ret)

\* Scenario E1: one Flag widget for gravity with hotkey g, display hotkey "0".
C24_Witness ==
    /\ call.fn = "make_commands"
    /\ call.doc = GravityDoc
    /\ call.ret = << [widget |-> "Flag", flag |-> "gravity", hotkey |-> Some("g")] >>
    /\ call.config.settings.display = "0"

\* A group inside a group was made, next to an empty group.
C24_WitnessNested ==
    /\ call.fn = "make_commands"
    /\ call.doc = NestedDoc
    /\ Len(call.ret) = 3
    /\ Len(call.ret[2].children) = 4
    /\ Len(call.ret[2].children[2].children) = 2

\* ---------------------------------------------------------------- C25
\* s is the start of t.
IsPrefix(s, t) == Len(s) <= Len(t) /\ \A k \in 1..Len(s) : s[k] = t[k]

\* C25: DllMain spawns one worker on process attach and none on any other
\* reason; the worker loads the config, makes the widgets, fixes the icon of
\* item 117 and installs the hook, in that order, and no frame is rendered before
\* the tool is constructed; when the installation fails the worker logs the error
\* and calls eject once, and when it succeeds the worker does not call eject.
C25_BootOrder ==
    /\ boot.spawned =
          Cardinality({ k \in 1..Len(boot.calls) : boot.calls[k] = "DLL_PROCESS_ATTACH" })
    /\ boot.spawned <= 1
    /\ IsPrefix(boot.steps,
                << "load_config", "make_commands", "fixup", "apply", "error", "eject" >>)
    /\ boot.frames > 0 => IsPrefix(<< "load_config", "make_commands", "fixup", "apply" >>, boot.steps)
    /\ ~boot.early
    /\ boot.result = "ok" => (boot.ejects = 0 /\ boot.errors = 0 /\ boot.worker = "done")
    /\ (boot.result = "err" /\ boot.worker = "done") => (boot.ejects = 1 /\ boot.errors = 1)
    /\ boot.ejects <= 1
    /\ boot.ejects = 1 => boot.errors = 1

\* The installation failed and the worker has ejected, thread notifications
\* having arrived meanwhile.
C25_Witness ==
    /\ boot.result = "err" /\ boot.worker = "done" /\ boot.ejects = 1
    /\ \E k \in 1..Len(boot.calls) : boot.calls[k] = "DLL_THREAD_ATTACH"

\* The installation succeeded and frames are rendered.
C25_WitnessHooked ==
    boot.result = "ok" /\ boot.frames > 1 /\ boot.ejects = 0

\* ---------------------------------------------------------------- C26
\* The place of a call among the calls inject has made, 0 when not made.
Place(step) ==
    IF \E k \in 1..Len(inj.done) : inj.done[k] = step
    THEN CHOOSE k \in 1..Len(inj.done) : inj.done[k] = step
    ELSE 0

Before(a, b) == Place(b) > 0 => (Place(a) > 0 /\ Place(a) < Place(b))

\* C26: inject frees the remote memory and closes the process handle only
\* after it has waited on the remote thread and read its exit code; it writes the
\* path before it starts the thread; and when the window is not found it returns
\* having opened no process, allocated nothing and started no thread.
C26_InjectOrder ==
    /\ Before("WaitForSingleObject", "VirtualFreeEx")
    /\ Before("GetExitCodeThread", "VirtualFreeEx")
    /\ Before("WaitForSingleObject", "CloseHandle_hproc")
    /\ Before("GetExitCodeThread", "CloseHandle_hproc")
    /\ Before("CreateRemoteThread", "WaitForSingleObject")
    /\ Before("WriteProcessMemory", "CreateRemoteThread")
    /\ Before("VirtualAllocEx", "WriteProcessMemory")
    /\ \A k \in 1..Len(inj.done) : \A j \in 1..Len(inj.done) :
          inj.done[k] = inj.done[j] => k = j
    /\ ("thread" \in inj.live \/ Place("WaitForSingleObject") = 0) =>
          {"dllp", "hproc"} \cap inj.live = {"dllp", "hproc"} \cap
             { r \in {"dllp", "hproc"} : inj[r] = "ok" }
    /\ "FindWindowA" \in inj.failed =>
          (inj.pc = "returned" /\ inj.done = << "FindWindowA" >> /\ inj.live = { }
             /\ inj.hproc = "unset" /\ inj.dllp = "unset" /\ inj.thread = "unset")

\* A whole injection: thread started, waited on, memory freed, handle closed.
C26_Witness ==
    /\ inj.pc = "returned"
    /\ inj.thread = "ok" /\ inj.res = "ok" /\ inj.dllp = "ok"
    /\ Place("VirtualFreeEx") > Place("GetExitCodeThread")
    /\ inj.live = { }

\* The window was not found.
C26_WitnessNoWindow ==
    inj.pc = "returned" /\ "FindWindowA" \in inj.failed /\ inj.done = << "FindWindowA" >>

\* ---------------------------------------------------------------- C27
\* C27: in practice_tool.rs is_hidden implies the mode is Hidden or MenuOpen;
\* is_hidden is set only with the mode going from Closed to Hidden, cleared only
\* with the mode going from MenuOpen to Closed, and while it stays set MenuOpen
\* is left only for Hidden and the tool is not unloaded.
C27_HiddenNeverClosed ==
    /\ [](build = "pt" /\ is_hidden => ui_state \in {"Hidden", "MenuOpen"})
    /\ [][build = "pt" =>
            /\ (~is_hidden /\ is_hidden') => (ui_state = "Closed" /\ ui_state' = "Hidden")
            /\ (is_hidden /\ ~is_hidden') => (ui_state = "MenuOpen" /\ ui_state' = "Closed")
            /\ (is_hidden /\ is_hidden' /\ ui_state = "MenuOpen") =>
                  ui_state' \in {"MenuOpen", "Hidden"}
            /\ is_hidden => ~ejected']_vars

\* The Close button was clicked in MenuOpen with is_hidden set: the frame ends in
\* Hidden.
C27_Witness ==
    /\ build = "pt" /\ is_hidden /\ pc = "drain" /\ branch = "visible"
    /\ ui_state0 = "MenuOpen" /\ ui_state = "Hidden"
    /\ ~(keyup("display", io.keys, active_id) \/ is_pressed("display", io.keys, active_id)
           \/ is_pressed("hide", io.keys, active_id))

\* ---------------------------------------------------------------- C28
\* The lines in the widgets' own logs, widget by widget, each stamped t.
RECURSIVE Pending(_, _, _)
Pending(i, wss, t) ==
    IF i > Len(wss) THEN << >>
    ELSE extend(<< >>, Lines(Widget_log(wss[i])), t) \o Pending(i + 1, wss, t)

NonDecreasing(entries) ==
    \A j \in 1..Len(entries) : \A k \in j..Len(entries) : entries[j].tm <= entries[k].tm

\* C28: every message a widget records reaches the frame log once, in the
\* drain of the frame that recorded it: the drain appends the widgets' lines,
\* each widget's in the order recorded, and empties the widgets' logs; after it
\* no message is missing or doubled, and the frame log's times never decrease.
C28_DrainedOnce ==
    /\ [](pc \in {"logs", "idle"} =>
            /\ \A i \in 1..Len(ws) : Widget_log(ws[i]) = None
            /\ Len(arrived) = next_id
            /\ Ids(arrived) = 0..(next_id - 1)
            /\ (pc = "logs" => fresh \subseteq Ids(log)))
    /\ [](NonDecreasing(log) /\ NonDecreasing(arrived))
    /\ [][pc = "drain" =>
            /\ arrived' = arrived \o Pending(1, ws, now)
            /\ \E n \in 0..Len(log) :
                  log' = SubSeq(log, n + 1, Len(log)) \o Pending(1, ws, now)]_vars

\* A widget's line was drained in this frame, after lines of earlier frames of
\* which the first has left the frame log: the new line is in the frame log.
C28_Witness ==
    /\ pc = "logs"
    /\ fresh # { }
    /\ Len(arrived) > 2
    /\ Len(log) < Len(arrived)
    /\ arrived[1].tm < now
    /\ fresh \subseteq Ids(log)

\* Four widgets each recorded a line in one frame: all four are in the frame log.
C28_WitnessFour ==
    pc = "logs" /\ Cardinality(fresh) = 4 /\ fresh \subseteq Ids(log)

\* ---------------------------------------------------------------- C29
\* C29: when inject copies the DLL path, the bytes read from the local wide
\* string never exceed its length (path and terminator, two bytes each), the
\* bytes written never exceed the remote allocation of MAX_PATH * 2 bytes, and
\* the string left in the host is terminated, for every length of the path.
C29_CopyWithinBounds ==
    call.fn = "write_dll_path" =>
        /\ call.ret.read <= call.ret.buffer
        /\ call.ret.written <= call.ret.allocated
        /\ call.ret.terminated

\* ---------------------------------------------------------------- C30
\* C30: whatever the user does in the item spawner, upgrade is an index of
\* UPGRADES, infusion_type an index of INFUSION_TYPES, qty is in [1, 99] and
\* durability in [0, 9999].
C30_SelectionInRange ==
    \A i \in 1..Len(ws) :
        ws[i].kind = "spawner" =>
            /\ ws[i].sel.upgrade \in 0..(Len(UPGRADES) - 1)
            /\ ws[i].sel.infusion_type \in 0..(Len(INFUSION_TYPES) - 1)
            /\ ws[i].sel.qty \in 1..99
            /\ ws[i].sel.durability \in 0..9999

====
